---- MODULE Spec2Model ----
(***************************************************************************)
(* Model of LocalKernelSpecFinderBase and loadKernelSpec                   *)
(* (src/src/notebooks/export/exportToHTML.ts, lines 56-420): the           *)
(* scope-level listing cache, the path-search cache, the memento bridge    *)
(* and the kernel spec loader; and of the cells of the CI results notebook *)
(* (src/.vscode/notebooks/CITestResults.ipynb) that save result files.     *)
(*                                                                         *)
(* Strings the code inspects character by character (display names, spec   *)
(* names, launch arguments) are sequences of one-character strings.        *)
(* File system paths are sequences of path segments.  An optional value    *)
(* is a sequence of length 0 (undefined) or 1 (the value).                 *)
(***************************************************************************)
EXTENDS Naturals, Sequences, FiniteSets, TLC

VARIABLES
    \* ---- scope-level listing cache (listKernelsWithCache) ----
    kernelSpecCache,            \* Map<string, {usesPython, wasPythonExtInstalled, promise}>
    finderPromises,             \* the promises finder().then(...) created so far
    isPythonExtensionInstalled, \* extensionChecker.isPythonExtensionInstalled
    lastListCall,               \* history: the latest listKernelsWithCache call
    \* ---- path-search cache (findKernelSpecsInPath) ----
    findKernelSpecsInPathCache, \* Map<string, Promise<...>>
    searches,                   \* the promises the async body of findKernelSpecsInPath created
    cancelled,                  \* the cancellation tokens whose isCancellationRequested is true
    lastPathCall,               \* history: the latest findKernelSpecsInPath call
    \* ---- the file system ----
    files,                      \* the paths that exist
    \* ---- memento bridge ----
    globalState,                \* the Memento
    extensionVersion,           \* env.extensionVersion
    mementoLoad,                \* history: the latest listKernelsFirstTimeFromMemento call
    \* ---- pure listing post-processing ----
    items,                      \* a list produced by finder()
    listed,                     \* what the .then() callback of listKernelsWithCache made of it
    \* ---- loadKernelSpec ----
    load,                       \* the state of one loadKernelSpec call
    \* ---- getKernelSpec and deleteOldKernelSpec ----
    pathToKernelSpec,           \* Map<string, Promise<IJupyterKernelSpec | undefined>>
    loadPromises,               \* the promises loadKernelSpec returned to getKernelSpec
    gets,                       \* the getKernelSpec calls made so far
    quarantines,                \* the deleteOldKernelSpec calls made so far
    oldKernelSpecsFolder,       \* _oldKernelSpecsFolder
    \* ---- the CI results notebook ----
    alreadyDownloaded,          \* the dict alreadyDownloaded: name -> datetime
    resultFiles,                \* the files in resultsDownloadLocation: name -> content
    saved                       \* history: the saveResultsFile calls made so far

vars == << kernelSpecCache, finderPromises, isPythonExtensionInstalled, lastListCall,
           findKernelSpecsInPathCache, searches, cancelled, lastPathCall,
           files, globalState, extensionVersion, mementoLoad,
           items, listed, load,
           pathToKernelSpec, loadPromises, gets, quarantines, oldKernelSpecsFolder,
           alreadyDownloaded, resultFiles, saved >>

listVars == << kernelSpecCache, finderPromises, isPythonExtensionInstalled, lastListCall >>
pathVars == << findKernelSpecsInPathCache, searches, lastPathCall >>
mementoVars == << globalState, extensionVersion, mementoLoad >>
sortVars == << items, listed >>
getVars == << pathToKernelSpec, loadPromises, gets, quarantines, oldKernelSpecsFolder >>
notebookVars == << alreadyDownloaded, resultFiles, saved >>

(***************************************************************************)
(* Bounds of the model.                                                    *)
(***************************************************************************)
MaxItems == 3        \* longest list a finder produces in SpecSort
MaxFinders == 2      \* finder() invocations in SpecList
MaxSearches == 2     \* searches findKernelSpecsInPath starts in SpecPath
MaxStored == 2       \* longest list written to the memento in SpecMemento
MaxGets == 2         \* getKernelSpec calls in SpecGet
MaxRuns == 2         \* saveResultsFile calls in SpecNotebook

(***************************************************************************)
(* Characters and strings.                                                 *)
(***************************************************************************)
\* The characters the model uses, in ascending UTF-16 code unit order.
Ascii ==
    << " ", "#", "(", ")", "-", ".",
       "0", "1", "2", "3", "4", "5", "6", "7", "8", "9",
       "A", "B", "C", "D", "E", "F", "G", "H", "I", "J", "K", "L", "M",
       "N", "O", "P", "Q", "R", "S", "T", "U", "V", "W", "X", "Y", "Z",
       "_",
       "a", "b", "c", "d", "e", "f", "g", "h", "i", "j", "k", "l", "m",
       "n", "o", "p", "q", "r", "s", "t", "u", "v", "w", "x", "y", "z",
       "{", "}" >>

UpperLetters ==
    << "A", "B", "C", "D", "E", "F", "G", "H", "I", "J", "K", "L", "M",
       "N", "O", "P", "Q", "R", "S", "T", "U", "V", "W", "X", "Y", "Z" >>

LowerLetters ==
    << "a", "b", "c", "d", "e", "f", "g", "h", "i", "j", "k", "l", "m",
       "n", "o", "p", "q", "r", "s", "t", "u", "v", "w", "x", "y", "z" >>

Digits == { "0", "1", "2", "3", "4", "5", "6", "7", "8", "9" }

\* The rank of a character in code unit order.
CharCode(c) == CHOOSE i \in 1..Len(Ascii) : Ascii[i] = c

ToUpperChar(c) ==
    IF \E i \in 1..26 : LowerLetters[i] = c
    THEN UpperLetters[CHOOSE i \in 1..26 : LowerLetters[i] = c]
    ELSE c

ToLowerChar(c) ==
    IF \E i \in 1..26 : UpperLetters[i] = c
    THEN LowerLetters[CHOOSE i \in 1..26 : UpperLetters[i] = c]
    ELSE c

\* String.prototype.toUpperCase / toLowerCase
toUpperCase(s) == [i \in 1..Len(s) |-> ToUpperChar(s[i])]
toLowerCase(s) == [i \in 1..Len(s) |-> ToLowerChar(s[i])]

\* The < of two JavaScript strings: by code units, a proper prefix first.
StrLess(a, b) ==
    \E i \in 1..(Len(a) + 1) :
        /\ \A j \in 1..(i - 1) : j <= Len(b) /\ a[j] = b[j]
        /\ \/ i = Len(a) + 1 /\ Len(b) >= i
           \/ i <= Len(a) /\ i <= Len(b) /\ CharCode(a[i]) < CharCode(b[i])

\* Array.prototype.join
RECURSIVE join(_, _)
join(arr, sep) ==
    IF Len(arr) = 0 THEN << >>
    ELSE IF Len(arr) = 1 THEN arr[1]
    ELSE arr[1] \o sep \o join(Tail(arr), sep)

\* Array.prototype.includes
includes(arr, x) == \E i \in 1..Len(arr) : arr[i] = x

\* All sequences over S of length at most n.
RECURSIVE SeqsUpTo(_, _)
SeqsUpTo(S, n) ==
    IF n = 0 THEN { << >> }
    ELSE LET shorter == SeqsUpTo(S, n - 1)
         IN shorter \cup { Append(s, x) : s \in { t \in shorter : Len(t) = n - 1 }, x \in S }

(***************************************************************************)
(* listKernelsWithCache: the .then() callback (lines 127-147).             *)
(***************************************************************************)
\* Lines 128-134: a Map keyed by kernelSpec.id keeps the first record of each
\* id, and Map.values() iterates in insertion order.
RECURSIVE distinctKernelMetadata(_)
distinctKernelMetadata(list) ==
    IF Len(list) = 0 THEN << >>
    ELSE LET before == distinctKernelMetadata(SubSeq(list, 1, Len(list) - 1))
             kernelSpec == list[Len(list)]
         IN IF \E i \in 1..Len(before) : before[i].id = kernelSpec.id
            THEN before
            ELSE Append(before, kernelSpec)

\* A mutant of compareDisplayNames: the names are compared as they are.
compareDisplayNamesCaseSensitive(a, b) ==
    LET nameA == a.kernelSpec.display_name
        nameB == b.kernelSpec.display_name
    IN IF nameA = nameB THEN "eq"
       ELSE IF StrLess(nameA, nameB) THEN "lt"
       ELSE "gt"

\* Lines 136-146: the comparator handed to sort (-1, 0, 1 as "lt", "eq", "gt").
compareDisplayNames(a, b) ==
    LET nameA == toUpperCase(a.kernelSpec.display_name)
        nameB == toUpperCase(b.kernelSpec.display_name)
    IN IF nameA = nameB THEN "eq"
       ELSE IF StrLess(nameA, nameB) THEN "lt"
       ELSE "gt"

\* Array.prototype.sort is stable: an element is placed after the elements
\* that do not compare greater than it.
RECURSIVE insertSorted(_, _)
insertSorted(sortedList, x) ==
    IF Len(sortedList) = 0 THEN << x >>
    ELSE IF compareDisplayNames(x, Head(sortedList)) = "lt"
         THEN << x >> \o sortedList
         ELSE << Head(sortedList) >> \o insertSorted(Tail(sortedList), x)

RECURSIVE sortByDisplayName(_)
sortByDisplayName(list) ==
    IF Len(list) = 0 THEN << >>
    ELSE insertSorted(sortByDisplayName(SubSeq(list, 1, Len(list) - 1)), list[Len(list)])

\* Lines 127-147: what the promise stored in the slot resolves to.
thenDistinctSorted(list) == sortByDisplayName(distinctKernelMetadata(list))

(***************************************************************************)
(* The inputs of the pure post-processing specification.                   *)
(***************************************************************************)
Kernel(id, name) == [id |-> id, kernelSpec |-> [display_name |-> name]]

\* Records a finder may produce: ids repeat under different display names,
\* and the display names differ in case and in the characters between the
\* two letter ranges.
Kernels ==
    { Kernel("k1", << "b" >>),
      Kernel("k2", << "B" >>),
      Kernel("k1", << "a" >>),
      Kernel("k3", << "a", "b" >>),
      Kernel("k4", << "C" >>),
      Kernel("k5", << "_" >>) }

NotListed == << >>

InitSort ==
    /\ items \in SeqsUpTo(Kernels, MaxItems)
    /\ listed = NotListed

IdleSort ==
    /\ items = << >>
    /\ listed = NotListed

\* The .then() callback of line 127 runs on the list the finder produced.
ThenCallback ==
    /\ listed = NotListed
    /\ listed' = << thenDistinctSorted(items) >>
    /\ UNCHANGED items
    /\ UNCHANGED << listVars, pathVars, cancelled, files, mementoVars, notebookVars, load, getVars >>

\* The finder of a later listKernelsWithCache call produces another list.
FinderProduces ==
    /\ listed # NotListed
    /\ items' \in SeqsUpTo(Kernels, MaxItems)
    /\ listed' = NotListed
    /\ UNCHANGED << listVars, pathVars, cancelled, files, mementoVars, notebookVars, load, getVars >>

NextSort ==
    \/ ThenCallback
    \/ FinderProduces

(***************************************************************************)
(* Scope-level listing cache: listKernelsWithCache (lines 108-155).        *)
(***************************************************************************)
CacheKeys == { "local", "remote" }

\* The lists the finders of SpecList resolve to.
FinderLists ==
    { << Kernel("k1", << "b" >>), Kernel("k2", << "B" >>), Kernel("k1", << "a" >>) >>,
      << Kernel("k4", << "C" >>), Kernel("k3", << "a", "b" >>) >> }

NoSlot == << >>

\* A mutant of useCachedPromise: the branch of line 123 is missing.
useCachedPromiseNoElse(result, ignoreCache, installed) ==
    /\ result # NoSlot
    /\ ~ignoreCache
    /\ result[1].usesPython
    /\ result[1].wasPythonExtInstalled = installed

\* A mutant of useCachedPromise: ignoreCache is not looked at.
useCachedPromiseIgnoringFlag(result, ignoreCache, installed) ==
    /\ result # NoSlot
    /\ \/ result[1].usesPython /\ result[1].wasPythonExtInstalled = installed
       \/ ~result[1].usesPython

\* Lines 115-126: whether the call returns result.promise.
useCachedPromise(result, ignoreCache, installed) ==
    /\ result # NoSlot
    /\ ~ignoreCache
    /\ \/ result[1].usesPython /\ result[1].wasPythonExtInstalled = installed
       \/ ~result[1].usesPython

\* Whether a finder of cacheKey has not settled yet.
FinderInFlight(cacheKey) ==
    \E p \in 1..Len(finderPromises) :
        finderPromises[p].cacheKey = cacheKey /\ finderPromises[p].state = "pending"

NoListCall ==
    [ cacheKey |-> "", dependsOnPythonExtension |-> FALSE, ignoreCache |-> FALSE,
      found |-> NoSlot, installed |-> FALSE, inFlight |-> FALSE,
      finders |-> 0, promise |-> 0 ]

InitList ==
    /\ kernelSpecCache = [k \in CacheKeys |-> NoSlot]
    /\ finderPromises = << >>
    /\ isPythonExtensionInstalled \in BOOLEAN
    /\ lastListCall = NoListCall

IdleList ==
    /\ kernelSpecCache = [k \in CacheKeys |-> NoSlot]
    /\ finderPromises = << >>
    /\ isPythonExtensionInstalled = FALSE
    /\ lastListCall = NoListCall

\* A mutant of kernelSpecCacheSet: the slot of every key is overwritten.
kernelSpecCacheSetAll(cacheKey, slot) == [ k \in CacheKeys |-> << slot >> ]

\* A mutant of kernelSpecCacheSet: a slot that is filled is left as it is.
kernelSpecCacheSetOnce(cacheKey, slot) ==
    IF kernelSpecCache[cacheKey] = NoSlot
    THEN [ kernelSpecCache EXCEPT ![cacheKey] = << slot >> ]
    ELSE kernelSpecCache

\* Lines 149-153: this.kernelSpecCache.set(cacheKey, { ... }).
kernelSpecCacheSet(cacheKey, slot) == [ kernelSpecCache EXCEPT ![cacheKey] = << slot >> ]

\* Lines 108-155.  lastListCall records the arguments, what the call found
\* (the slot, the extension state, a finder in flight, the number of finders
\* invoked so far) and the promise it returned.
listKernelsWithCache(cacheKey, dependsOnPythonExtension, ignoreCache) ==
    LET result == kernelSpecCache[cacheKey]
        call == [ cacheKey |-> cacheKey,
                  dependsOnPythonExtension |-> dependsOnPythonExtension,
                  ignoreCache |-> ignoreCache,
                  found |-> result,
                  installed |-> isPythonExtensionInstalled,
                  inFlight |-> FinderInFlight(cacheKey),
                  finders |-> Len(finderPromises),
                  promise |-> 0 ]
    IN /\ UNCHANGED << pathVars, cancelled, files, mementoVars, sortVars, notebookVars, load, getVars >>
       /\ IF useCachedPromise(result, ignoreCache, isPythonExtensionInstalled)
          THEN /\ lastListCall' = [call EXCEPT !.promise = result[1].promise]
               /\ UNCHANGED << kernelSpecCache, finderPromises, isPythonExtensionInstalled >>
          ELSE /\ Len(finderPromises) < MaxFinders
               /\ finderPromises' =
                      Append(finderPromises,
                             [cacheKey |-> cacheKey, state |-> "pending", value |-> << >>])
               /\ kernelSpecCache' =
                      kernelSpecCacheSet(cacheKey,
                          [ usesPython |-> dependsOnPythonExtension,
                            promise |-> Len(finderPromises) + 1,
                            wasPythonExtInstalled |-> isPythonExtensionInstalled ])
               /\ lastListCall' =
                      [call EXCEPT !.promise = kernelSpecCache'[cacheKey][1].promise]
               /\ UNCHANGED isPythonExtensionInstalled

\* finder() resolves: the .then() callback of line 127 settles the promise.
FinderResolves(p, list) ==
    /\ finderPromises[p].state = "pending"
    /\ finderPromises' =
           [finderPromises EXCEPT ![p].state = "fulfilled",
                                  ![p].value = thenDistinctSorted(list)]
    /\ UNCHANGED << kernelSpecCache, isPythonExtensionInstalled, lastListCall >>
    /\ UNCHANGED << pathVars, cancelled, files, mementoVars, sortVars, notebookVars, load, getVars >>

\* finder() rejects: so does the promise derived from it.
FinderRejects(p) ==
    /\ finderPromises[p].state = "pending"
    /\ finderPromises' = [finderPromises EXCEPT ![p].state = "rejected"]
    /\ UNCHANGED << kernelSpecCache, isPythonExtensionInstalled, lastListCall >>
    /\ UNCHANGED << pathVars, cancelled, files, mementoVars, sortVars, notebookVars, load, getVars >>

\* The Python extension is installed or uninstalled.
PythonExtensionChanges ==
    /\ isPythonExtensionInstalled' = ~isPythonExtensionInstalled
    /\ UNCHANGED << kernelSpecCache, finderPromises, lastListCall >>
    /\ UNCHANGED << pathVars, cancelled, files, mementoVars, sortVars, notebookVars, load, getVars >>

NextList ==
    \/ \E k \in CacheKeys, d \in BOOLEAN, i \in BOOLEAN : listKernelsWithCache(k, d, i)
    \/ \E p \in 1..Len(finderPromises), l \in FinderLists : FinderResolves(p, l)
    \/ \E p \in 1..Len(finderPromises) : FinderRejects(p)
    \/ PythonExtensionChanges

(***************************************************************************)
(* The file system: the set of paths that exist.                           *)
(***************************************************************************)
IsPrefix(p, q) == Len(p) <= Len(q) /\ SubSeq(q, 1, Len(p)) = p

\* path.dirname
dirname(p) == SubSeq(p, 1, Len(p) - 1)

\* path.basename
basename(p) == p[Len(p)]

\* fs.exists
exists(p) == p \in files

\* A file or directory appears; the directories above it have to exist.
FsCreate(universe, p) ==
    /\ p \in universe
    /\ p \notin files
    /\ \A q \in universe : IsPrefix(q, p) => q = p \/ q \in files
    /\ files' = files \cup { p }

\* A file or directory is deleted, with everything below it.
FsDelete(p) ==
    /\ p \in files
    /\ files' = { q \in files : ~IsPrefix(p, q) }

(***************************************************************************)
(* Path-search cache: findKernelSpecsInPath (lines 287-333).               *)
(***************************************************************************)
KernelsDir == << "kernels" >>
SpecFilePy == << "kernels", "py3", "kernel.json" >>
CondaPython == << "conda", "python" >>

\* The spec files fs.searchLocal enumerates, in the order it reports them.
SpecFiles == << SpecFilePy >>

PathUniverse == { KernelsDir, SpecFilePy }

NoInterpreter == << >>
CondaInterpreter == [ uri |-> CondaPython ]

\* searchItem: a Uri, or { interpreter, kernelSearchPath }.
SearchItems ==
    { [ interpreter |-> NoInterpreter, kernelSearchPath |-> KernelsDir ],
      [ interpreter |-> << CondaInterpreter >>, kernelSearchPath |-> KernelsDir ] }

Tokens == { "t1", "t2" }

isUri(searchItem) == searchItem.interpreter = NoInterpreter

\* getComparisonKey: the string form of the Uri.
getComparisonKey(uri) == << "file:" >> \o uri

\* Lines 291-293.
searchCacheKey(searchItem) ==
    IF isUri(searchItem)
    THEN getComparisonKey(searchItem.kernelSearchPath)
    ELSE getComparisonKey(searchItem.interpreter[1].uri)
             \o getComparisonKey(searchItem.kernelSearchPath)

SearchCacheKeys == { searchCacheKey(i) : i \in SearchItems }

\* fs.searchLocal('**/kernel.json', searchPath, true): the paths, relative to
\* searchPath, of the kernel.json files below it.
searchLocal(searchPath) ==
    LET found == SelectSeq(SpecFiles,
                     LAMBDA f : f \in files /\ IsPrefix(searchPath, f)
                                /\ basename(f) = "kernel.json")
    IN [i \in 1..Len(found) |-> SubSeq(found[i], Len(searchPath) + 1, Len(found[i]))]

\* uriPath.joinPath
joinPath(base, relative) == base \o relative

\* Lines 306-313.
toKernelSpecFiles(searchItem, relativeFiles) ==
    [i \in 1..Len(relativeFiles) |->
        [ interpreter |-> searchItem.interpreter,
          kernelSpecFile |-> joinPath(searchItem.kernelSearchPath, relativeFiles[i]) ]]

NoPromise == 0

Pending(s) == searches[s].pc \in { "exists", "searchLocal" }

NoPathCall ==
    [ previousPromise |-> NoPromise, previousPending |-> FALSE, promise |-> NoPromise,
      cancelToken |-> "" ]

InitPath ==
    /\ findKernelSpecsInPathCache = [k \in SearchCacheKeys |-> NoPromise]
    /\ searches = << >>
    /\ lastPathCall = NoPathCall

IdlePath == InitPath

\* A mutant of evictOwn: the entry is deleted whatever promise it holds.
evictAny(cache, cacheKey, promise) == [cache EXCEPT ![cacheKey] = NoPromise]

\* Lines 321-323 and 327-329: delete the entry if it is still this promise.
evictOwn(cache, cacheKey, promise) ==
    IF cache[cacheKey] = promise
    THEN [cache EXCEPT ![cacheKey] = NoPromise]
    ELSE cache

\* A mutant of previousPromiseOf: the cache is not consulted.
previousPromiseIgnored(cacheKey) == NoPromise

\* A mutant of onCancellationRequested: the listener does nothing.
onCancellationRequestedNoop(cache, cacheKey, promise) == cache

\* Lines 320-324: the listener.
onCancellationRequested(cache, cacheKey, promise) == evictOwn(cache, cacheKey, promise)

\* A mutant of onRejected: the handler only logs.
onRejectedNoop(cache, cacheKey, promise) == cache

\* Lines 326-331: the rejection handler.
onRejected(cache, cacheKey, promise) == evictOwn(cache, cacheKey, promise)

\* Line 295.
previousPromiseOf(cacheKey) == findKernelSpecsInPathCache[cacheKey]

\* Line 325: disposable.dispose().  The listener of a token that was already
\* cancelled at line 320 waits on a timer ("deferred"), which is then cleared
\* or has fired ("spent").
disposed(listener) ==
    IF listener \in { "deferred", "spent" } THEN "spent" ELSE "disposed"

\* Lines 287-333, up to the first await of the async body (fs.exists).
\* A token that is already cancelled calls a new listener back later, from
\* a timer, unless the listener is disposed first.
findKernelSpecsInPath(searchItem, cancelToken) ==
    LET cacheKey == searchCacheKey(searchItem)
        previousPromise == previousPromiseOf(cacheKey)
        call == [ previousPromise |-> findKernelSpecsInPathCache[cacheKey],
                  previousPending |->
                      /\ findKernelSpecsInPathCache[cacheKey] # NoPromise
                      /\ Pending(findKernelSpecsInPathCache[cacheKey]),
                  promise |-> NoPromise,
                  cancelToken |-> cancelToken ]
        promise == Len(searches) + 1
    IN /\ UNCHANGED << cancelled, files, listVars, mementoVars, sortVars, notebookVars, load, getVars >>
       /\ IF previousPromise # NoPromise
          THEN /\ lastPathCall' = [call EXCEPT !.promise = previousPromise]
               /\ UNCHANGED << findKernelSpecsInPathCache, searches >>
          ELSE /\ Len(searches) < MaxSearches
               /\ searches' =
                      Append(searches,
                             [ cacheKey |-> cacheKey,
                               searchItem |-> searchItem,
                               token |-> cancelToken,
                               pc |-> "exists",
                               value |-> << >>,
                               searchLocalCalls |-> 0,
                               existed |-> FALSE,
                               cancelSeen |-> FALSE,
                               cancelledWhilePending |-> FALSE,
                               listener |-> IF cancelToken \in cancelled
                                            THEN "deferred" ELSE "subscribed" ])
               /\ findKernelSpecsInPathCache' =
                      [findKernelSpecsInPathCache EXCEPT ![cacheKey] = promise]
               /\ lastPathCall' = [call EXCEPT !.promise = promise]

\* A mutant of ExistsReturns: the glob runs whatever fs.exists answered.
ExistsReturnsSearchesAnyway(s) ==
    /\ searches[s].pc = "exists"
    /\ searches' =
           [searches EXCEPT
               ![s].existed = exists(searches[s].searchItem.kernelSearchPath),
               ![s].cancelSeen = searches[s].token \in cancelled,
               ![s].pc = "searchLocal",
               ![s].searchLocalCalls = @ + 1]
    /\ UNCHANGED << findKernelSpecsInPathCache, lastPathCall >>
    /\ UNCHANGED << cancelled, files, listVars, mementoVars, sortVars, notebookVars, load, getVars >>

\* Lines 301-304 and 314-317: fs.exists returns.  When the promise resolves
\* here, line 325 disposes the listener.  existed and cancelSeen record what
\* fs.exists answered and whether the token was cancelled at that moment.
ExistsReturns(s) ==
    LET existed == exists(searches[s].searchItem.kernelSearchPath)
        cancelSeen == searches[s].token \in cancelled
        seen == [searches[s] EXCEPT !.existed = existed, !.cancelSeen = cancelSeen]
    IN /\ searches[s].pc = "exists"
       /\ IF existed
          THEN IF cancelSeen
               THEN searches' = [searches EXCEPT ![s] =
                                    [seen EXCEPT !.pc = "resolved",
                                                 !.listener = disposed(@)]]
               ELSE searches' = [searches EXCEPT ![s] =
                                    [seen EXCEPT !.pc = "searchLocal",
                                                 !.searchLocalCalls = @ + 1]]
          ELSE searches' = [searches EXCEPT ![s] =
                               [seen EXCEPT !.pc = "resolved", !.listener = disposed(@)]]
       /\ UNCHANGED << findKernelSpecsInPathCache, lastPathCall >>
       /\ UNCHANGED << cancelled, files, listVars, mementoVars, sortVars, notebookVars, load, getVars >>

\* Lines 305-313: fs.searchLocal returns; line 325 disposes the listener.
SearchLocalReturns(s) ==
    /\ searches[s].pc = "searchLocal"
    /\ searches' =
           [searches EXCEPT
               ![s].pc = "resolved",
               ![s].value = toKernelSpecFiles(searches[s].searchItem,
                                searchLocal(searches[s].searchItem.kernelSearchPath)),
               ![s].listener = disposed(@)]
    /\ UNCHANGED << findKernelSpecsInPathCache, lastPathCall >>
    /\ UNCHANGED << cancelled, files, listVars, mementoVars, sortVars, notebookVars, load, getVars >>

\* fs.searchLocal fails: the promise rejects, line 325 disposes the listener
\* and the handler of lines 326-331 runs.
SearchLocalFails(s) ==
    /\ searches[s].pc = "searchLocal"
    /\ searches' = [searches EXCEPT ![s].pc = "rejected", ![s].listener = disposed(@)]
    /\ findKernelSpecsInPathCache' =
           onRejected(findKernelSpecsInPathCache, searches[s].cacheKey, s)
    /\ UNCHANGED lastPathCall
    /\ UNCHANGED << cancelled, files, listVars, mementoVars, sortVars, notebookVars, load, getVars >>

\* The listeners of lines 320-324 that run when token t is cancelled, one
\* after the other.
RECURSIVE runListeners(_, _, _)
runListeners(cache, t, s) ==
    IF s > Len(searches) THEN cache
    ELSE runListeners(
             IF searches[s].token = t /\ searches[s].listener = "subscribed"
             THEN onCancellationRequested(cache, searches[s].cacheKey, s)
             ELSE cache,
             t, s + 1)

\* Cancellation of token t is requested: the subscribed listeners run.
CancelToken(t) ==
    /\ t \notin cancelled
    /\ cancelled' = cancelled \cup { t }
    /\ findKernelSpecsInPathCache' = runListeners(findKernelSpecsInPathCache, t, 1)
    /\ searches' =
           [s \in 1..Len(searches) |->
               IF searches[s].token = t /\ Pending(s)
               THEN [searches[s] EXCEPT !.cancelledWhilePending = TRUE]
               ELSE searches[s]]
    /\ UNCHANGED lastPathCall
    /\ UNCHANGED << files, listVars, mementoVars, sortVars, notebookVars, load, getVars >>

\* The timer of a listener added to an already cancelled token fires.
DeferredListenerRuns(s) ==
    /\ searches[s].listener = "deferred"
    /\ searches' = [searches EXCEPT ![s].listener = "spent"]
    /\ findKernelSpecsInPathCache' =
           onCancellationRequested(findKernelSpecsInPathCache, searches[s].cacheKey, s)
    /\ UNCHANGED lastPathCall
    /\ UNCHANGED << cancelled, files, listVars, mementoVars, sortVars, notebookVars, load, getVars >>

\* A directory or a spec file below it appears or disappears.
PathCreated(p) ==
    /\ FsCreate(PathUniverse, p)
    /\ UNCHANGED << pathVars, cancelled, listVars, mementoVars, sortVars, notebookVars, load, getVars >>

PathDeleted(p) ==
    /\ FsDelete(p)
    /\ UNCHANGED << pathVars, cancelled, listVars, mementoVars, sortVars, notebookVars, load, getVars >>

NextPath ==
    \/ \E i \in SearchItems, t \in Tokens : findKernelSpecsInPath(i, t)
    \/ \E s \in 1..Len(searches) : ExistsReturns(s)
    \/ \E s \in 1..Len(searches) : SearchLocalReturns(s)
    \/ \E s \in 1..Len(searches) : SearchLocalFails(s)
    \/ \E s \in 1..Len(searches) : DeferredListenerRuns(s)
    \/ \E t \in Tokens : CancelToken(t)
    \/ \E p \in PathUniverse : PathCreated(p)
    \/ \E p \in PathUniverse : PathDeleted(p)

(***************************************************************************)
(* Memento bridge: listKernelsFirstTimeFromMemento, writeToMementoCache    *)
(* and isValidCachedKernel (lines 156-213).                                *)
(***************************************************************************)
MementoKeys == { "local" }

Versions == { << "1", ".", "0", ".", "0" >>, << "1", ".", "0", ".", "1" >> }

NoSpecFile == << >>

Connection(kind, id, interpreter, specFile) ==
    [ kind |-> kind, id |-> id, interpreter |-> interpreter,
      kernelSpec |-> [ specFile |-> specFile ] ]

\* The connections a previous run may have cached.
CachedKernels ==
    { Connection("startUsingPythonInterpreter", "c1", << CondaInterpreter >>, NoSpecFile),
      Connection("startUsingLocalKernelSpec", "c2", NoInterpreter, << SpecFilePy >>),
      Connection("startUsingLocalKernelSpec", "c3", << CondaInterpreter >>, << SpecFilePy >>),
      Connection("startUsingLocalKernelSpec", "c4", << CondaInterpreter >>, NoSpecFile) }

MementoUniverse == { SpecFilePy, CondaPython }

\* The wire form of a connection.
serializeKernelConnection(kernel) ==
    << kernel.kind, kernel.id, kernel.interpreter, kernel.kernelSpec.specFile >>

deserializeKernelConnection(wire) ==
    Connection(wire[1], wire[2], wire[3], wire[4])

\* Array.prototype.map
map(Op(_), arr) == [i \in 1..Len(arr) |-> Op(arr[i])]

\* What globalState.get returns when nothing is stored (lines 158-161).
DefaultCache == [ kernels |-> << >>, isArray |-> TRUE, extensionVersion |-> << >> ]

\* What a previous run may have left in the memento.
StoredCaches ==
    { [ kernels |-> map(serializeKernelConnection, l), isArray |-> TRUE,
        extensionVersion |-> v ] :
          l \in SeqsUpTo(CachedKernels, MaxStored), v \in Versions }
    \cup { [ kernels |-> << >>, isArray |-> FALSE,
             extensionVersion |-> CHOOSE v \in Versions : TRUE ] }

NotStored == << >>

\* globalState.get(cacheKey, default)
globalStateGet(cacheKey) ==
    IF globalState[cacheKey] = NotStored THEN DefaultCache ELSE globalState[cacheKey][1]

\* A mutant of cachedKernels: the stored version is not compared.
cachedKernelsAnyVersion(cache) ==
    IF cache.isArray
    THEN map(deserializeKernelConnection, cache.kernels)
    ELSE << >>

\* Lines 163-174.
cachedKernels(cache) ==
    IF cache.isArray /\ cache.extensionVersion = extensionVersion
    THEN map(deserializeKernelConnection, cache.kernels)
    ELSE << >>

\* Lines 198-213.  In line 210 the conditional operator binds looser than &&:
\* the condition is (r && kernel.interpreter).
isValidCachedKernel(kernel) ==
    IF kernel.kind = "startUsingPythonInterpreter"
    THEN exists(kernel.interpreter[1].uri)
    ELSE LET r == IF kernel.kernelSpec.specFile # NoSpecFile
                  THEN exists(kernel.kernelSpec.specFile[1])
                  ELSE TRUE
         IN IF r /\ kernel.interpreter # NoInterpreter
            THEN exists(kernel.interpreter[1].uri)
            ELSE TRUE

\* The orders in which n concurrent checks may finish.
CompletionOrders(n) ==
    { f \in [1..n -> 1..n] : \A i, j \in 1..n : f[i] = f[j] => i = j }

\* mementoLoad.fresh: nothing the call read has changed since it returned.
NoMementoLoad == [ fresh |-> FALSE, cacheKey |-> "", validValues |-> << >> ]

Stale == [ mementoLoad EXCEPT !.fresh = FALSE ]

InitMemento ==
    /\ globalState \in [MementoKeys -> { NotStored } \cup { << c >> : c \in StoredCaches }]
    /\ extensionVersion \in Versions
    /\ mementoLoad = NoMementoLoad

IdleMemento ==
    /\ globalState = [k \in MementoKeys |-> NotStored]
    /\ extensionVersion = CHOOSE v \in Versions : TRUE
    /\ mementoLoad = NoMementoLoad

\* Lines 156-186.  The validations of lines 178-184 run concurrently, so the
\* valid connections are pushed in the order in which their checks finish.
listKernelsFirstTimeFromMemento(cacheKey) ==
    LET cache == globalStateGet(cacheKey)
        kernels == cachedKernels(cache)
        valid == SelectSeq(kernels, isValidCachedKernel)
    IN /\ \E order \in CompletionOrders(Len(valid)) :
              mementoLoad' =
                  [ fresh |-> TRUE, cacheKey |-> cacheKey,
                    validValues |-> [i \in 1..Len(valid) |-> valid[order[i]]] ]
       /\ UNCHANGED << globalState, extensionVersion, files >>
       /\ UNCHANGED << listVars, pathVars, cancelled, sortVars, notebookVars, load, getVars >>

\* Lines 188-197.  removeOldCachedItems prunes the keys of earlier releases,
\* none of which is a key of MementoKeys.
writeToMementoCache(values, cacheKey) ==
    /\ globalState' =
           [globalState EXCEPT ![cacheKey] =
               << [ kernels |-> map(serializeKernelConnection, values),
                    isArray |-> TRUE,
                    extensionVersion |-> extensionVersion ] >>]
    /\ mementoLoad' = Stale
    /\ UNCHANGED << extensionVersion, files >>
    /\ UNCHANGED << listVars, pathVars, cancelled, sortVars, notebookVars, load, getVars >>

\* The extension is updated and runs again under another version
\* (the scenario of lines 164-171); the memento survives.
ExtensionUpdated(v) ==
    /\ v # extensionVersion
    /\ extensionVersion' = v
    /\ mementoLoad' = Stale
    /\ UNCHANGED << globalState, files >>
    /\ UNCHANGED << listVars, pathVars, cancelled, sortVars, notebookVars, load, getVars >>

\* A cached spec file or interpreter appears or disappears.
CachedPathCreated(p) ==
    /\ FsCreate(MementoUniverse, p)
    /\ mementoLoad' = Stale
    /\ UNCHANGED << globalState, extensionVersion >>
    /\ UNCHANGED << listVars, pathVars, cancelled, sortVars, notebookVars, load, getVars >>

CachedPathDeleted(p) ==
    /\ FsDelete(p)
    /\ mementoLoad' = Stale
    /\ UNCHANGED << globalState, extensionVersion >>
    /\ UNCHANGED << listVars, pathVars, cancelled, sortVars, notebookVars, load, getVars >>

NextMemento ==
    \/ \E k \in MementoKeys : listKernelsFirstTimeFromMemento(k)
    \/ \E k \in MementoKeys, l \in SeqsUpTo(CachedKernels, MaxStored) :
           writeToMementoCache(l, k)
    \/ \E v \in Versions : ExtensionUpdated(v)
    \/ \E p \in MementoUniverse : CachedPathCreated(p)
    \/ \E p \in MementoUniverse : CachedPathDeleted(p)

(***************************************************************************)
(* loadKernelSpec (lines 339-420).                                         *)
(***************************************************************************)
PYTHON_LANGUAGE == << "p", "y", "t", "h", "o", "n" >>
oldKernelsSpecFolderName == "__old_vscode_kernelspecs"
\* The other string literals of the source, and the strings of the inputs.
Str ==
    [ strUndefined |-> << "u", "n", "d", "e", "f", "i", "n", "e", "d" >>,
      argPython |-> << "p", "y", "t", "h", "o", "n" >>,
      argM |-> << "-", "m" >>,
      argIpykernel |-> << "i", "p", "y", "k", "e", "r", "n", "e", "l" >>,
      argIpykernelLauncher |-> << "i", "p", "y", "k", "e", "r", "n", "e", "l", "_", "l", "a", "u", "n", "c", "h", "e", "r" >>,
      argF |-> << "-", "f" >>,
      argConnectionFile |-> << "{", "c", "o", "n", "n", "e", "c", "t", "i", "o", "n", "_", "f", "i", "l", "e", "}" >>,
      argDebug |-> << "-", "-", "d", "e", "b", "u", "g" >>,
      argDebugMixedCase |-> << "-", "-", "D", "e", "b", "u", "g" >>,
      argProfile |-> << "-", "-", "p", "r", "o", "f", "i", "l", "e" >>,
      nameMyKernel |-> << "m", "y", "k", "e", "r", "n", "e", "l" >>,
      displayPython3 |-> << "P", "y", "t", "h", "o", "n", " ", "3" >>,
      displayPython39 |-> << "P", "y", "t", "h", "o", "n", " ", "3", ".", "9" >>,
      displayPython39Env |-> << "P", "y", "t", "h", "o", "n", " ", "3", ".", "9", " ", "(", "e", "n", "v", ")" >>,
      displayCustom |-> << "M", "y", " ", "C", "u", "s", "t", "o", "m", " ", "K", "e", "r", "n", "e", "l" >>,
      r |-> << "R" >> ]

\* Line 383.
StandardArgs == << Str.argM, Str.argIpykernel, Str.argIpykernelLauncher, Str.argF, Str.argConnectionFile >>

\* Array.prototype.filter
filter(Test(_), arr) == SelectSeq(arr, Test)

IsWhitespace(c) == c = " "

AllDigits(s) == \A i \in 1..Len(s) : s[i] \in Digits

\* The tail \d*.?\d*$ of the pattern of line 57: digits, at most one
\* character of any kind, digits, and the end of the string.
matchesVersionTail(s) ==
    \E a \in 0..Len(s) :
        /\ AllDigits(SubSeq(s, 1, a))
        /\ \/ a = Len(s)
           \/ AllDigits(SubSeq(s, a + 2, Len(s)))

\* Line 57: /python\s\d*.?\d*$/ matches somewhere in s.
isDefaultPythonKernelSpecSpecName(s) ==
    \E i \in 1..Len(s) :
        /\ i + 6 <= Len(s)
        /\ SubSeq(s, i, i + 5) = PYTHON_LANGUAGE
        /\ IsWhitespace(s[i + 6])
        /\ matchesVersionTail(SubSeq(s, i + 7, Len(s)))

Undefined == << >>

\* A template literal's conversion of an optional string.
templateString(optional) == IF optional = Undefined THEN Str.strUndefined ELSE optional[1]

VenvPython == << "venv", "python" >>
VenvInterpreter == [ uri |-> VenvPython ]

\* getInterpreterKernelSpecName: "python" followed by a digest of the
\* interpreter's path.
interpreterDigest(uri) == IF uri = CondaPython THEN << "c", "0" >> ELSE << "v", "1" >>
getInterpreterKernelSpecName(interpreter) == PYTHON_LANGUAGE \o interpreterDigest(interpreter.uri)

KernelJson(name, displayName, language, argv, interpreterPath) ==
    [ name |-> name, display_name |-> displayName, language |-> language, argv |-> argv,
      metadata |-> [ interpreter |-> interpreterPath ] ]

DefaultArgv == << Str.argPython, Str.argM, Str.argIpykernelLauncher, Str.argF, Str.argConnectionFile >>

\* The parsed contents of the spec files of SpecLoad.
KernelJsons ==
    { KernelJson(<< Str.nameMyKernel >>, Str.displayPython39, PYTHON_LANGUAGE, DefaultArgv, Undefined),
      KernelJson(<< Str.nameMyKernel >>, Str.displayCustom, PYTHON_LANGUAGE, DefaultArgv, Undefined),
      KernelJson(<< Str.nameMyKernel >>, Str.displayCustom, PYTHON_LANGUAGE,
                 Append(DefaultArgv, Str.argDebug), Undefined),
      KernelJson(<< Str.nameMyKernel >>, Str.displayPython39Env, PYTHON_LANGUAGE,
                 << Str.argPython, Str.argM, Str.argIpykernel, Str.argDebugMixedCase, Str.argProfile >>,
                 << CondaPython >>),
      KernelJson(Undefined, Str.displayCustom, PYTHON_LANGUAGE,
                 Append(DefaultArgv, Str.argDebug), Undefined),
      KernelJson(<< Str.nameMyKernel >>, Str.displayPython3, PYTHON_LANGUAGE,
                 Append(DefaultArgv, Str.argDebug), Undefined),
      KernelJson(<< Str.nameMyKernel >>, Str.displayCustom, PYTHON_LANGUAGE,
                 << Str.argPython, Str.argDebug >>, Undefined),
      KernelJson(<< Str.nameMyKernel >>, Str.r, Str.r,
                 << Str.r, Str.argF, Str.argConnectionFile, Str.argDebug >>, Undefined),
      KernelJson(Undefined, Str.displayPython3, PYTHON_LANGUAGE, DefaultArgv, Undefined) }

\* Whether a parsed document has a property.
has(document, property) == property \in DOMAIN document

\* Documents that JSON.parse accepts and that are no well-formed spec: the
\* document null, a record without display_name and records without argv.
NullDocument == [ null |-> TRUE ]
LacksDisplayName ==
    [ name |-> << Str.nameMyKernel >>, language |-> PYTHON_LANGUAGE, argv |-> DefaultArgv,
      metadata |-> [ interpreter |-> Undefined ] ]
LacksArgv ==
    [ name |-> << Str.nameMyKernel >>, display_name |-> Str.displayCustom,
      language |-> PYTHON_LANGUAGE, metadata |-> [ interpreter |-> Undefined ] ]
LacksArgvDefaultName ==
    [ name |-> << Str.nameMyKernel >>, display_name |-> Str.displayPython3,
      language |-> PYTHON_LANGUAGE, metadata |-> [ interpreter |-> Undefined ] ]
MalformedJsons == { NullDocument, LacksDisplayName, LacksArgv, LacksArgvDefaultName }

\* What fs.readFile and JSON.parse make of a spec file: a document, or a failure.
Unparseable == << >>
SpecFileContents == { Unparseable } \cup { << j >> : j \in KernelJsons \cup MalformedJsons }

LoadSpecPaths == { SpecFilePy, << "kernels", oldKernelsSpecFolderName, "py3", "kernel.json" >> }
LoadInterpreters == { NoInterpreter, << CondaInterpreter >>, << VenvInterpreter >> }
LoadUniverse == { CondaPython, VenvPython }

\* A mutant of includesOldKernelsSpecFolderName: no path is recognised.
includesNoFolderName(specPath) == FALSE

\* Line 346: whether the path string contains the folder name.
includesOldKernelsSpecFolderName(specPath) ==
    \E i \in 1..Len(specPath) : specPath[i] = oldKernelsSpecFolderName

\* Lines 380-383.
nonStandardArgs(argv) ==
    filter(LAMBDA arg : ~includes(StandardArgs, arg), map(toLowerCase, Tail(argv)))

\* A mutant of nameWithArgs: the arguments follow a '#'.
nameWithArgsHash(name, argv) == templateString(name) \o << "#" >> \o join(argv, << "#" >>)

\* Line 385.
nameWithArgs(name, argv) == templateString(name) \o << "." >> \o join(argv, << "#" >>)

\* Line 369: a property of the document null is read or written.
throwsAtName(kernelJson) == has(kernelJson, "null")

\* Lines 375-376: toLowerCase of a display_name that is undefined, or the
\* length of an argv that is undefined, once the tests before it have passed.
throwsInDisplayNameCheck(kernelJson) ==
    \/ ~has(kernelJson, "display_name")
    \/ /\ ~isDefaultPythonKernelSpecSpecName(toLowerCase(kernelJson.display_name))
       /\ kernelJson.language = PYTHON_LANGUAGE
       /\ ~has(kernelJson, "argv")

\* Lines 375-387: kernelJson.name after the launch arguments were looked at.
nameAfterArgv(kernelJson) ==
    LET isDefaultPythonName ==
            isDefaultPythonKernelSpecSpecName(toLowerCase(kernelJson.display_name))
    IN IF ~isDefaultPythonName /\ kernelJson.language = PYTHON_LANGUAGE
          /\ Len(kernelJson.argv) > 2
       THEN LET argv == nonStandardArgs(kernelJson.argv)
            IN IF Len(argv) > 0
               THEN << nameWithArgs(kernelJson.name, argv) >>
               ELSE kernelJson.name
       ELSE kernelJson.name

\* Lines 406 and 414.
interpreterPathOf(kernelJson, interpreter) ==
    IF interpreter # NoInterpreter
    THEN << interpreter[1].uri >>
    ELSE kernelJson.metadata.interpreter

\* getKernelRegistrationInfo: the provenance tag of a spec the extension
\* registered itself, undefined for any other spec.
getKernelRegistrationInfo(kernelSpec) ==
    IF has(kernelSpec, "isRegisteredByVSC") THEN kernelSpec.isRegisteredByVSC ELSE Undefined

\* Lines 374-411: the kernelSpec built from kernelJson, whose name line 369
\* has already set.
buildKernelSpec(kernelJson, specPath, interpreter) ==
    LET name == nameAfterArgv(kernelJson)
    IN [ name |-> IF name # Undefined /\ name[1] # << >>
                  THEN name[1]
                  ELSE << basename(dirname(specPath)) >>,
         display_name |-> kernelJson.display_name,
         language |-> kernelJson.language,
         argv |-> IF has(kernelJson, "argv") THEN kernelJson.argv ELSE Undefined,
         specFile |-> specPath,
         isRegisteredByVSC |-> getKernelRegistrationInfo(kernelJson),
         interpreterPath |-> interpreterPathOf(kernelJson, interpreter) ]

Absent == << >>

NoLoad ==
    [ pc |-> "idle", specPath |-> << >>, interpreter |-> NoInterpreter, token |-> "",
      content |-> Unparseable, kernelJson |-> Undefined, result |-> Absent ]

InitLoad ==
    /\ load = NoLoad
    /\ cancelled = {}
    /\ files \in SUBSET LoadUniverse

IdleLoad == load = NoLoad

\* Lines 344-356: the call, up to the await of fs.readFile.
startLoad(specPath, cancelToken, interpreter, content) ==
    IF includesOldKernelsSpecFolderName(specPath)
    THEN [ NoLoad EXCEPT !.pc = "done", !.specPath = specPath,
                         !.interpreter = interpreter, !.token = cancelToken,
                         !.content = content ]
    ELSE [ NoLoad EXCEPT !.pc = "readFile", !.specPath = specPath,
                         !.interpreter = interpreter, !.token = cancelToken,
                         !.content = content ]

\* A caller other than getKernelSpec calls loadKernelSpec.
loadKernelSpec(specPath, cancelToken, interpreter, content) ==
    /\ load.pc = "idle"
    /\ load' = startLoad(specPath, cancelToken, interpreter, content)
    /\ UNCHANGED << cancelled, files, listVars, pathVars, mementoVars, sortVars, notebookVars, getVars >>

\* Lines 411-419, from the kernelSpec on: the await of fs.exists, or the return.
afterBuild(kernelJson) ==
    LET kernelSpec == buildKernelSpec(kernelJson, load.specPath, load.interpreter)
    IN IF throwsInDisplayNameCheck(kernelJson)
       THEN [ load EXCEPT !.pc = "threw" ]
       ELSE IF kernelSpec.interpreterPath # Undefined
       THEN [ load EXCEPT !.pc = "exists", !.kernelJson = << kernelJson >> ]
       ELSE [ load EXCEPT !.pc = "done", !.kernelJson = << kernelJson >>,
                          !.result = << kernelSpec >> ]

\* Lines 356-372: fs.readFile returns and the text is parsed.  Without an
\* interpreter line 369 awaits nothing and the code runs on to line 415.
LoadReadFileReturns ==
    /\ load.pc = "readFile"
    /\ load' =
           IF load.content = Unparseable \/ load.token \in cancelled
           THEN [ load EXCEPT !.pc = "done" ]
           ELSE IF load.interpreter # NoInterpreter
           THEN [ load EXCEPT !.pc = "getName", !.kernelJson = load.content ]
           ELSE IF throwsAtName(load.content[1])
           THEN [ load EXCEPT !.pc = "threw" ]
           ELSE afterBuild(load.content[1])
    /\ UNCHANGED << cancelled, files, listVars, pathVars, mementoVars, sortVars, notebookVars, getVars >>

\* A mutant of LoadNameReturns: line 370 does not look at the token.
LoadNameReturnsUnchecked ==
    /\ load.pc = "getName"
    /\ load' =
           IF throwsAtName(load.kernelJson[1])
           THEN [ load EXCEPT !.pc = "threw" ]
           ELSE afterBuild([ load.kernelJson[1] EXCEPT
                                 !.name = << getInterpreterKernelSpecName(load.interpreter[1]) >> ])
    /\ UNCHANGED << cancelled, files, listVars, pathVars, mementoVars, sortVars, notebookVars, getVars >>

\* Lines 369-372: getInterpreterKernelSpecName returns, and its value is
\* stored in kernelJson.name.
LoadNameReturns ==
    /\ load.pc = "getName"
    /\ load' =
           IF throwsAtName(load.kernelJson[1])
           THEN [ load EXCEPT !.pc = "threw" ]
           ELSE IF load.token \in cancelled
           THEN [ load EXCEPT !.pc = "done" ]
           ELSE afterBuild([ load.kernelJson[1] EXCEPT
                                 !.name = << getInterpreterKernelSpecName(load.interpreter[1]) >> ])
    /\ UNCHANGED << cancelled, files, listVars, pathVars, mementoVars, sortVars, notebookVars, getVars >>

\* Lines 415-419: fs.exists returns.
LoadExistsReturns ==
    /\ load.pc = "exists"
    /\ LET kernelSpec == buildKernelSpec(load.kernelJson[1], load.specPath, load.interpreter)
       IN load' = IF exists(kernelSpec.interpreterPath[1])
                  THEN [ load EXCEPT !.pc = "done", !.result = << kernelSpec >> ]
                  ELSE [ load EXCEPT !.pc = "done" ]
    /\ UNCHANGED << cancelled, files, listVars, pathVars, mementoVars, sortVars, notebookVars, getVars >>

\* The caller has its answer or its error; another call can be made.  The
\* answer of a load that getKernelSpec started goes to its promise instead.
LoadReturned ==
    /\ load.pc \in { "done", "threw" }
    /\ \A p \in 1..Len(loadPromises) : loadPromises[p].state # "pending"
    /\ load' = NoLoad
    /\ UNCHANGED << cancelled, files, listVars, pathVars, mementoVars, sortVars, notebookVars, getVars >>

\* Cancellation of the load's token is requested.
LoadCancelRequested(t) ==
    /\ t \notin cancelled
    /\ cancelled' = cancelled \cup { t }
    /\ UNCHANGED << load, files, listVars, pathVars, mementoVars, sortVars, notebookVars, getVars >>

\* An interpreter appears or disappears.
InterpreterCreated(p) ==
    /\ FsCreate(LoadUniverse, p)
    /\ UNCHANGED << load, cancelled, listVars, pathVars, mementoVars, sortVars, notebookVars, getVars >>

InterpreterDeleted(p) ==
    /\ FsDelete(p)
    /\ UNCHANGED << load, cancelled, listVars, pathVars, mementoVars, sortVars, notebookVars, getVars >>

NextLoad ==
    \/ \E sp \in LoadSpecPaths, t \in Tokens, i \in LoadInterpreters, c \in SpecFileContents :
           loadKernelSpec(sp, t, i, c)
    \/ LoadReadFileReturns
    \/ LoadNameReturns
    \/ LoadExistsReturns
    \/ LoadReturned
    \/ \E t \in Tokens : LoadCancelRequested(t)
    \/ \E p \in LoadUniverse : InterpreterCreated(p)
    \/ \E p \in LoadUniverse : InterpreterDeleted(p)

(***************************************************************************)
(* getKernelSpec and deleteOldKernelSpec (lines 217-267).                  *)
(***************************************************************************)
\* A spec the extension registered itself in an earlier run.
RegisteredJson ==
    [ name |-> << Str.nameMyKernel >>, display_name |-> Str.displayPython39,
      language |-> PYTHON_LANGUAGE, argv |-> DefaultArgv,
      metadata |-> [ interpreter |-> Undefined ],
      isRegisteredByVSC |-> << "registeredByNewVersionOfExt" >> ]

\* What the spec file holds when getKernelSpec has it loaded.
GetContents ==
    { Unparseable, << NullDocument >>, << RegisteredJson >>,
      << KernelJson(<< Str.nameMyKernel >>, Str.displayCustom, PYTHON_LANGUAGE,
                    Append(DefaultArgv, Str.argDebug), Undefined) >> }

\* globalSpecRootPath: none, the directory above the spec file, or another one.
GlobalSpecRootPaths == { Undefined, << KernelsDir >>, << dirname(CondaPython) >> }

\* uriPath.isEqualOrParent(base, parentCandidate)
isEqualOrParent(base, parentCandidate) == IsPrefix(parentCandidate, base)

\* Line 260.
destinationFolder(kernelSpecFile) ==
    Append(dirname(dirname(kernelSpecFile)), oldKernelsSpecFolderName)

\* Lines 259 and 262.
destinationFile(kernelSpecFile) ==
    destinationFolder(kernelSpecFile)
        \o << basename(dirname(kernelSpecFile)), basename(kernelSpecFile) >>

\* The cancellation token and the interpreters the callers of getKernelSpec pass.
GetTokens == { "t1" }
GetInterpreters == { NoInterpreter, << CondaInterpreter >> }

\* The spec files callers other than getKernelSpec have loadKernelSpec load
\* while getKernelSpec is at work: the backups of quarantine.
OldSpecPaths == { destinationFile(specPath) : specPath \in { SpecFilePy } }

GetKeys == { getComparisonKey(specPath) : specPath \in LoadSpecPaths }

InitGet ==
    /\ pathToKernelSpec = [ key \in GetKeys |-> NoPromise ]
    /\ loadPromises = << >>
    /\ gets = << >>
    /\ quarantines = << >>
    /\ oldKernelSpecsFolder = Undefined

\* A mutant of shouldDeleteKernelSpec: no spec is quarantined.
shouldDeleteKernelSpecNever(kernelSpec, globalSpecRootPath) == FALSE

\* Lines 235-240.
shouldDeleteKernelSpec(kernelSpec, globalSpecRootPath) ==
    /\ kernelSpec # Absent
    /\ globalSpecRootPath # Undefined
    /\ getKernelRegistrationInfo(kernelSpec[1]) # Undefined
    /\ kernelSpec[1].specFile # << >>
    /\ isEqualOrParent(kernelSpec[1].specFile, globalSpecRootPath[1])

\* Lines 217-233: the call, up to the then() of line 233.  One load is in
\* flight at a time; a file that does not exist cannot be read.
getKernelSpec(specPath, cancelToken, interpreter, globalSpecRootPath, content) ==
    LET key == getComparisonKey(specPath)
        call == [ specPath |-> specPath, interpreter |-> interpreter,
                  globalSpecRootPath |-> globalSpecRootPath, promise |-> NoPromise,
                  state |-> "pending", result |-> Absent ]
    IN /\ Len(gets) < MaxGets
       /\ UNCHANGED << quarantines, oldKernelSpecsFolder, cancelled, files >>
       /\ UNCHANGED << listVars, pathVars, mementoVars, sortVars, notebookVars >>
       /\ IF includesOldKernelsSpecFolderName(specPath)
          THEN /\ gets' = Append(gets, [ call EXCEPT !.state = "returned" ])
               /\ UNCHANGED << pathToKernelSpec, loadPromises, load >>
          ELSE IF pathToKernelSpec[key] = NoPromise
          THEN /\ load.pc = "idle"
               /\ exists(specPath) \/ content = Unparseable
               /\ load' = startLoad(specPath, cancelToken, interpreter, content)
               /\ loadPromises' = Append(loadPromises, [ state |-> "pending", value |-> Absent ])
               /\ pathToKernelSpec' = [ pathToKernelSpec EXCEPT ![key] = Len(loadPromises) + 1 ]
               /\ gets' = Append(gets, [ call EXCEPT !.promise = Len(loadPromises) + 1 ])
          ELSE /\ gets' = Append(gets, [ call EXCEPT !.promise = pathToKernelSpec[key] ])
               /\ UNCHANGED << pathToKernelSpec, loadPromises, load >>

\* The load getKernelSpec started returns or throws: its promise settles.
LoadSettles(p) ==
    /\ load.pc \in { "done", "threw" }
    /\ loadPromises[p].state = "pending"
    /\ loadPromises' =
           [ loadPromises EXCEPT ![p] =
               IF load.pc = "threw"
               THEN [ state |-> "rejected", value |-> Absent ]
               ELSE [ state |-> "fulfilled", value |-> load.result ] ]
    /\ load' = NoLoad
    /\ UNCHANGED << pathToKernelSpec, gets, quarantines, oldKernelSpecsFolder, cancelled, files >>
    /\ UNCHANGED << listVars, pathVars, mementoVars, sortVars, notebookVars >>

\* Lines 259-263: deleteOldKernelSpec up to its first await.
deleteOldKernelSpec(kernelSpecFile) ==
    /\ oldKernelSpecsFolder' = << destinationFolder(kernelSpecFile) >>
    /\ quarantines' =
           Append(quarantines,
                  [ kernelSpecFile |-> kernelSpecFile, pc |-> "createDirectory",
                    copied |-> FALSE, deleted |-> FALSE ])

\* Lines 233-254: the callback of line 233 runs for call g, in the order in
\* which the callbacks were added to the promise.  A rejected promise has
\* no callback to run and rejects the promise getKernelSpec returned.
GetThenCallback(g) ==
    LET p == gets[g].promise
        kernelSpec == loadPromises[p].value
        shouldDelete == shouldDeleteKernelSpec(kernelSpec, gets[g].globalSpecRootPath)
    IN /\ gets[g].state = "pending"
       /\ loadPromises[p].state # "pending"
       /\ \A h \in 1..(g - 1) : gets[h].promise = p => gets[h].state # "pending"
       /\ UNCHANGED << loadPromises, load, cancelled, files >>
       /\ UNCHANGED << listVars, pathVars, mementoVars, sortVars, notebookVars >>
       /\ IF loadPromises[p].state = "rejected"
          THEN /\ gets' = [ gets EXCEPT ![g].state = "rejected" ]
               /\ UNCHANGED << pathToKernelSpec, quarantines, oldKernelSpecsFolder >>
          ELSE IF kernelSpec # Absent /\ ~shouldDelete
          THEN /\ gets' = [ gets EXCEPT ![g].state = "returned", ![g].result = kernelSpec ]
               /\ UNCHANGED << pathToKernelSpec, quarantines, oldKernelSpecsFolder >>
          ELSE /\ gets' = [ gets EXCEPT ![g].state = "returned" ]
               /\ pathToKernelSpec' =
                      [ pathToKernelSpec EXCEPT ![getComparisonKey(gets[g].specPath)] = NoPromise ]
               /\ IF kernelSpec # Absent /\ shouldDelete
                  THEN deleteOldKernelSpec(kernelSpec[1].specFile)
                  ELSE UNCHANGED << quarantines, oldKernelSpecsFolder >>

\* Line 263: fs.createDirectory returns or fails; a failure ends
\* deleteOldKernelSpec.
CreateDirectoryReturns(q, ok) ==
    /\ quarantines[q].pc = "createDirectory"
    /\ quarantines' = [ quarantines EXCEPT ![q].pc = IF ok THEN "copy" ELSE "rejected" ]
    /\ files' = IF ok
                THEN files \cup { dirname(destinationFile(quarantines[q].kernelSpecFile)) }
                ELSE files
    /\ UNCHANGED << pathToKernelSpec, loadPromises, gets, oldKernelSpecsFolder, load, cancelled >>
    /\ UNCHANGED << listVars, pathVars, mementoVars, sortVars, notebookVars >>

\* A mutant of CopyReturns: a copy that reports success and stores nothing.
CopyReturnsWithoutBackup(q, ok) ==
    /\ quarantines[q].pc = "copy"
    /\ ok => exists(quarantines[q].kernelSpecFile)
    /\ quarantines' = [ quarantines EXCEPT ![q].pc = "delete", ![q].copied = ok ]
    /\ UNCHANGED << pathToKernelSpec, loadPromises, gets, oldKernelSpecsFolder, load, cancelled >>
    /\ UNCHANGED << files, listVars, pathVars, mementoVars, sortVars, notebookVars >>

\* A mutant of CopyReturns: a failed copy ends deleteOldKernelSpec.
CopyReturnsStopsOnFailure(q, ok) ==
    /\ quarantines[q].pc = "copy"
    /\ ok => exists(quarantines[q].kernelSpecFile)
    /\ quarantines' = [ quarantines EXCEPT ![q].pc = IF ok THEN "delete" ELSE "rejected",
                                           ![q].copied = ok ]
    /\ files' = IF ok
                THEN files \cup { destinationFile(quarantines[q].kernelSpecFile) }
                ELSE files
    /\ UNCHANGED << pathToKernelSpec, loadPromises, gets, oldKernelSpecsFolder, load, cancelled >>
    /\ UNCHANGED << listVars, pathVars, mementoVars, sortVars, notebookVars >>

\* Line 264: fs.copy returns or fails; catch(noop) lets line 265 follow
\* either way.  A file that does not exist cannot be copied.
CopyReturns(q, ok) ==
    /\ quarantines[q].pc = "copy"
    /\ ok => exists(quarantines[q].kernelSpecFile)
    /\ quarantines' = [ quarantines EXCEPT ![q].pc = "delete", ![q].copied = ok ]
    /\ files' = IF ok
                THEN files \cup { destinationFile(quarantines[q].kernelSpecFile) }
                ELSE files
    /\ UNCHANGED << pathToKernelSpec, loadPromises, gets, oldKernelSpecsFolder, load, cancelled >>
    /\ UNCHANGED << listVars, pathVars, mementoVars, sortVars, notebookVars >>

\* Lines 265-266: fs.delete returns or fails.
DeleteReturns(q, ok) ==
    /\ quarantines[q].pc = "delete"
    /\ ok => exists(quarantines[q].kernelSpecFile)
    /\ quarantines' = [ quarantines EXCEPT ![q].pc = IF ok THEN "done" ELSE "rejected",
                                           ![q].deleted = ok ]
    /\ files' = IF ok THEN files \ { quarantines[q].kernelSpecFile } ELSE files
    /\ UNCHANGED << pathToKernelSpec, loadPromises, gets, oldKernelSpecsFolder, load, cancelled >>
    /\ UNCHANGED << listVars, pathVars, mementoVars, sortVars, notebookVars >>

NextGet ==
    \/ \E sp \in LoadSpecPaths, t \in GetTokens, i \in GetInterpreters,
          root \in GlobalSpecRootPaths, c \in GetContents :
           getKernelSpec(sp, t, i, root, c)
    \/ \E sp \in OldSpecPaths, t \in GetTokens, i \in GetInterpreters, c \in GetContents :
           loadKernelSpec(sp, t, i, c)
    \/ LoadReturned
    \/ LoadReadFileReturns
    \/ LoadNameReturns
    \/ LoadExistsReturns
    \/ \E p \in 1..Len(loadPromises) : LoadSettles(p)
    \/ \E g \in 1..Len(gets) : GetThenCallback(g)
    \/ \E q \in 1..Len(quarantines), ok \in BOOLEAN : CreateDirectoryReturns(q, ok)
    \/ \E q \in 1..Len(quarantines), ok \in BOOLEAN : CopyReturns(q, ok)
    \/ \E q \in 1..Len(quarantines), ok \in BOOLEAN : DeleteReturns(q, ok)
    \/ \E t \in GetTokens : LoadCancelRequested(t)
    \/ \E i \in GetInterpreters \ { NoInterpreter } : InterpreterCreated(i[1].uri)
    \/ \E i \in GetInterpreters \ { NoInterpreter } : InterpreterDeleted(i[1].uri)

(***************************************************************************)
(* The CI results notebook (src/.vscode/notebooks/CITestResults.ipynb):    *)
(* the cells that list the result files already on disk and save the       *)
(* result files of the artifacts of each run.  A datetime is a pair        *)
(* << date, time >>; the content of a file is the number of the            *)
(* saveResultsFile call that wrote it, 0 for a file found on disk.         *)
(***************************************************************************)
ResultNames == { "a.json", "b.json" }

\* run["created_at"]: a date and a time of day, as the API prints them
Timestamps == { [ date |-> d, time |-> t ] : d \in 1..2, t \in 0..1 }

\* datetime.strptime(timestamp, "%Y-%m-%dT%H:%M:%SZ")
strptime(timestamp) == << timestamp.date, timestamp.time >>

\* a >= b on datetimes
notEarlier(a, b) == a[1] > b[1] \/ (a[1] = b[1] /\ a[2] >= b[2])

\* artifact.namelist(): the names in one zip, in order, repeats included
Namelists == SeqsUpTo(ResultNames, 2)

\* shouldDownload without the comparison with the recorded datetime
shouldDownloadAlways(downloaded, name, timestamp) ==
    [ result |-> TRUE,
      alreadyDownloaded |-> [ downloaded EXCEPT ![name] = << strptime(timestamp) >> ] ]

\* shouldDownload(name, timestamp): its return value and the dict it leaves
shouldDownload(downloaded, name, timestamp) ==
    LET fileDate == strptime(timestamp) IN
    IF downloaded[name] # Undefined /\ notEarlier(downloaded[name][1], fileDate)
    THEN [ result |-> FALSE, alreadyDownloaded |-> downloaded ]
    ELSE [ result |-> TRUE,
           alreadyDownloaded |-> [ downloaded EXCEPT ![name] = << fileDate >> ] ]

\* The loop of saveResultsFile over namelist from entry i on.  raisesAt is
\* the entry whose artifact.read or open/write raises (0: none does); the
\* exception leaves the loop, after shouldDownload changed the dict.
RECURSIVE saveNames(_, _, _, _, _, _)
saveNames(state, namelist, i, timeStamp, content, raisesAt) ==
    IF i > Len(namelist) THEN state
    ELSE LET name == namelist[i]
             decision == shouldDownload(state.alreadyDownloaded, name, timeStamp)
         IN IF ~decision.result
            THEN saveNames([ state EXCEPT !.checked = @ \cup { name } ],
                           namelist, i + 1, timeStamp, content, raisesAt)
            ELSE IF raisesAt = i
            THEN [ state EXCEPT !.alreadyDownloaded = decision.alreadyDownloaded,
                                !.raised = TRUE ]
            ELSE saveNames([ state EXCEPT
                                !.alreadyDownloaded = decision.alreadyDownloaded,
                                !.files[name] = << content >>,
                                !.checked = @ \cup { name },
                                !.written = @ \cup { name } ],
                           namelist, i + 1, timeStamp, content, raisesAt)

\* the cell that fills alreadyDownloaded from os.listdir: every file on
\* disk has an entry, its modification time (datetime.fromtimestamp)
InitNotebook ==
    /\ alreadyDownloaded \in [ ResultNames -> { Undefined } \cup { << strptime(t) >> : t \in Timestamps } ]
    /\ resultFiles = [ n \in ResultNames |->
                         IF alreadyDownloaded[n] = Undefined THEN Undefined ELSE << 0 >> ]
    /\ saved = << >>

IdleNotebook ==
    /\ alreadyDownloaded = [ n \in ResultNames |-> Undefined ]
    /\ resultFiles = [ n \in ResultNames |-> Undefined ]
    /\ saved = << >>

\* saveResultsFile(zipData, timeStamp), called by the loop over the runs
\* and their artifacts; an exception ends the cell
saveResultsFile(namelist, timeStamp, raisesAt) ==
    /\ Len(saved) < MaxRuns
    /\ \A c \in 1..Len(saved) : ~saved[c].raised
    /\ LET state == saveNames([ alreadyDownloaded |-> alreadyDownloaded,
                                files |-> resultFiles,
                                checked |-> {}, written |-> {}, raised |-> FALSE ],
                              namelist, 1, timeStamp, Len(saved) + 1, raisesAt)
       IN /\ alreadyDownloaded' = state.alreadyDownloaded
          /\ resultFiles' = state.files
          /\ saved' = Append(saved, [ timeStamp |-> timeStamp,
                                      namelist |-> namelist,
                                      recordedBefore |-> alreadyDownloaded,
                                      checked |-> state.checked,
                                      written |-> state.written,
                                      raised |-> state.raised ])
    /\ UNCHANGED << cancelled, files, load, listVars, pathVars, mementoVars, sortVars, getVars >>

NextNotebook ==
    \E namelist \in Namelists, timeStamp \in Timestamps, raisesAt \in 0..2 :
        /\ raisesAt <= Len(namelist)
        /\ saveResultsFile(namelist, timeStamp, raisesAt)

(***************************************************************************)
(* The specifications: one per part of the class.                          *)
(***************************************************************************)
InitSpecSort ==
    /\ InitSort /\ IdleList /\ IdlePath /\ IdleMemento /\ IdleLoad /\ InitGet /\ IdleNotebook
    /\ cancelled = {} /\ files = {}

InitSpecList ==
    /\ InitList /\ IdleSort /\ IdlePath /\ IdleMemento /\ IdleLoad /\ InitGet /\ IdleNotebook
    /\ cancelled = {} /\ files = {}

InitSpecPath ==
    /\ InitPath /\ IdleSort /\ IdleList /\ IdleMemento /\ IdleLoad /\ InitGet /\ IdleNotebook
    /\ cancelled = {} /\ files \in SUBSET PathUniverse
    /\ \A p \in files : \A q \in PathUniverse : IsPrefix(q, p) => q \in files

InitSpecMemento ==
    /\ InitMemento /\ IdleSort /\ IdleList /\ IdlePath /\ IdleLoad /\ InitGet /\ IdleNotebook
    /\ cancelled = {} /\ files \in SUBSET MementoUniverse

InitSpecLoad ==
    /\ InitLoad /\ IdleSort /\ IdleList /\ IdlePath /\ IdleMemento /\ InitGet /\ IdleNotebook

InitSpecGet ==
    /\ InitGet /\ IdleSort /\ IdleList /\ IdlePath /\ IdleMemento /\ IdleLoad /\ IdleNotebook
    /\ cancelled = {}
    /\ \E interpreters \in SUBSET { i[1].uri : i \in GetInterpreters \ { NoInterpreter } } :
           files = { SpecFilePy } \cup interpreters

InitSpecNotebook ==
    /\ InitNotebook /\ IdleSort /\ IdleList /\ IdlePath /\ IdleMemento /\ IdleLoad /\ InitGet
    /\ cancelled = {} /\ files = {}

SpecSort == InitSpecSort /\ [][NextSort]_vars
SpecList == InitSpecList /\ [][NextList]_vars
SpecPath == InitSpecPath /\ [][NextPath]_vars
SpecMemento == InitSpecMemento /\ [][NextMemento]_vars
SpecLoad == InitSpecLoad /\ [][NextLoad]_vars
SpecGet == InitSpecGet /\ [][NextGet]_vars
SpecNotebook == InitSpecNotebook /\ [][NextNotebook]_vars

Spec == SpecList

(***************************************************************************)
(* The claims.                                                             *)
(***************************************************************************)

\* ---- scope-level listing cache (SpecList) ----

FindersInFlight(cacheKey) ==
    { p \in 1..Len(finderPromises) :
        finderPromises[p].cacheKey = cacheKey /\ finderPromises[p].state = "pending" }

\* The latest call invoked its finder: it returned a promise that did not
\* exist before the call.
InvokedFinder == lastListCall.promise > lastListCall.finders

\* The slot the latest call found depends on the Python extension, whose
\* installed state differs from the one recorded in the slot.
ExtensionFlipped ==
    /\ lastListCall.found # NoSlot
    /\ lastListCall.found[1].usesPython
    /\ lastListCall.found[1].wasPythonExtInstalled # lastListCall.installed

\* C1, as stated: for every scope key at most one finder invocation is in
\* flight at any time, whatever the requests.
C1_AtMostOneFinderInFlight ==
    \A k \in CacheKeys : Cardinality(FindersInFlight(k)) <= 1

\* C1, amended: a request invokes the finder while another finder of the same
\* scope key is in flight only if it has ignoreCache set or found a slot that
\* depends on the Python extension whose installed state has flipped; the
\* requests that honour the cache never add a finder in flight.
C1_SecondFinderOnlyWhenForced ==
    (InvokedFinder /\ lastListCall.inFlight) =>
        (lastListCall.ignoreCache \/ ExtensionFlipped)

\* C1, witness: a request with ignoreCache invoked the finder while another
\* one was in flight, and both still are.
C1_Witness ==
    /\ InvokedFinder
    /\ lastListCall.inFlight
    /\ lastListCall.ignoreCache
    /\ Cardinality(FindersInFlight(lastListCall.cacheKey)) = 2

\* C8: a call invokes the finder if and only if the scope key has no slot, or
\* ignoreCache is set, or the slot found depends on the Python extension and
\* the extension's installed state differs from the recorded one; otherwise
\* it returns the promise stored in the slot.
C8_FinderInvokedIffCacheNotHonoured ==
    lastListCall.promise # 0 =>
        /\ InvokedFinder <=>
               (lastListCall.found = NoSlot \/ lastListCall.ignoreCache \/ ExtensionFlipped)
        /\ ~InvokedFinder => lastListCall.promise = lastListCall.found[1].promise

\* C8, witness: ignoreCache forced a new finder although the slot found did
\* not depend on the Python extension and its finder had already settled.
C8_Witness ==
    /\ InvokedFinder
    /\ lastListCall.ignoreCache
    /\ lastListCall.found # NoSlot
    /\ ~lastListCall.found[1].usesPython
    /\ ~lastListCall.inFlight

\* ---- path-search cache (SpecPath) ----

Settled(s) == searches[s].pc \in { "resolved", "rejected" }

\* C2, as stated: a call that finds the pending promise of an earlier call in
\* the cache receives that promise, and the search behind it invokes
\* fs.searchLocal exactly once.
C2_SharedAndSearchedExactlyOnce ==
    lastPathCall.previousPending =>
        /\ lastPathCall.promise = lastPathCall.previousPromise
        /\ Settled(lastPathCall.promise) =>
               searches[lastPathCall.promise].searchLocalCalls = 1

\* C2, amended: a call that finds a promise in the cache receives that
\* promise, and every search invokes fs.searchLocal at most once: exactly once
\* if the directory existed and the token was not cancelled when fs.exists
\* returned, and not at all otherwise.
C2_SharedAndSearchedAtMostOnce ==
    /\ lastPathCall.previousPromise # NoPromise =>
           lastPathCall.promise = lastPathCall.previousPromise
    /\ \A s \in 1..Len(searches) :
           /\ searches[s].searchLocalCalls <= 1
           /\ searches[s].pc # "exists" =>
                  (searches[s].searchLocalCalls = 1
                       <=> (searches[s].existed /\ ~searches[s].cancelSeen))

\* C2, witness: the second caller got the pending promise of the first, which
\* then resolved with the spec file found by its one fs.searchLocal call.
C2_Witness ==
    /\ lastPathCall.previousPending
    /\ lastPathCall.promise = lastPathCall.previousPromise
    /\ searches[lastPathCall.promise].pc = "resolved"
    /\ searches[lastPathCall.promise].searchLocalCalls = 1
    /\ Len(searches[lastPathCall.promise].value) = 1

\* C3, as stated: once a path search has completed, by success or by failure,
\* the cache does not hold its entry.
C3_CompletedEntryRemoved ==
    \A s \in 1..Len(searches) :
        Settled(s) => findKernelSpecsInPathCache[searches[s].cacheKey] # s

\* C3, amended: the cache does not hold the entry of a search that failed;
\* the entry of a search that succeeded, with no cancellation requested
\* before it completed, stays in the cache.
C3_FailedRemovedSucceededKept ==
    \A s \in 1..Len(searches) :
        /\ searches[s].pc = "rejected" =>
               findKernelSpecsInPathCache[searches[s].cacheKey] # s
        /\ (searches[s].pc = "resolved" /\ ~searches[s].cancelSeen
                /\ ~searches[s].cancelledWhilePending) =>
               findKernelSpecsInPathCache[searches[s].cacheKey] = s

\* C3, witness: a search failed, and a later call for the same key started a
\* fresh search, which called fs.searchLocal again.
C3_Witness ==
    \E s, n \in 1..Len(searches) :
        /\ s < n
        /\ searches[s].cacheKey = searches[n].cacheKey
        /\ searches[s].pc = "rejected"
        /\ searches[n].searchLocalCalls = 1

\* The token of search s was not yet cancelled when the search started.
StartedUncancelled(s) == searches[s].listener \in { "subscribed", "disposed" }

\* C4, as stated: once cancellation of the token passed to a search has been
\* requested, the cache does not hold the entry of that search.
C4_NoEntryOnceCancelled ==
    \A s \in 1..Len(searches) :
        (StartedUncancelled(s) /\ searches[s].token \in cancelled) =>
            findKernelSpecsInPathCache[searches[s].cacheKey] # s

\* C4, amended: once cancellation has been requested while the search was
\* pending, the cache does not hold the entry of that search; and the request
\* leaves the search where it was (it is not aborted).
C4_CancelWhilePendingEvicts ==
    /\ [](\A s \in 1..Len(searches) :
              searches[s].cancelledWhilePending =>
                  findKernelSpecsInPathCache[searches[s].cacheKey] # s)
    /\ [][\A s \in 1..Len(searches) :
              (searches[s].token \in cancelled' /\ searches[s].token \notin cancelled) =>
                  /\ Len(searches') = Len(searches)
                  /\ searches'[s].pc = searches[s].pc
                  /\ searches'[s].value = searches[s].value]_vars

\* C4, witness: a search cancelled while pending went on and resolved with
\* the spec file, and a later call for the same key started another search.
C4_Witness ==
    \E s, n \in 1..Len(searches) :
        /\ s < n
        /\ searches[s].cacheKey = searches[n].cacheKey
        /\ searches[s].cancelledWhilePending
        /\ searches[s].pc = "resolved"
        /\ Len(searches[s].value) = 1

\* ---- memento bridge (SpecMemento) ----

\* What the latest call read, while nothing it read has changed.
LoadedKernels == cachedKernels(globalStateGet(mementoLoad.cacheKey))

Returned(kernel) ==
    \E i \in 1..Len(mementoLoad.validValues) : mementoLoad.validValues[i] = kernel

\* C5: a cached local-spec-file connection that has a spec file is returned
\* if and only if the spec file exists and, when the connection has an
\* interpreter, the interpreter exists too.
C5_DeletedSpecFileDropped ==
    mementoLoad.fresh =>
        \A i \in 1..Len(LoadedKernels) :
            LET kernel == LoadedKernels[i]
            IN (kernel.kind = "startUsingLocalKernelSpec"
                    /\ kernel.kernelSpec.specFile # NoSpecFile) =>
                   (Returned(kernel) <=>
                        /\ exists(kernel.kernelSpec.specFile[1])
                        /\ kernel.interpreter # NoInterpreter =>
                               exists(kernel.interpreter[1].uri))

\* C6: no connection returned references an interpreter that does not exist.
C6_MissingInterpreterExcluded ==
    mementoLoad.fresh =>
        \A i \in 1..Len(mementoLoad.validValues) :
            LET kernel == mementoLoad.validValues[i]
            IN kernel.interpreter # NoInterpreter => exists(kernel.interpreter[1].uri)

\* C7: if the stored entry carries another extension version than the running
\* one, nothing is returned; what is returned comes from the stored list of
\* an entry of the running version.
C7_VersionSkewDiscardsAll ==
    mementoLoad.fresh =>
        LET cache == globalStateGet(mementoLoad.cacheKey)
        IN /\ cache.extensionVersion # extensionVersion => mementoLoad.validValues = << >>
           /\ \A i \in 1..Len(mementoLoad.validValues) :
                  /\ cache.extensionVersion = extensionVersion
                  /\ \E j \in 1..Len(cache.kernels) :
                         cache.kernels[j] =
                             serializeKernelConnection(mementoLoad.validValues[i])

\* C7, witness: an entry of another version, whose connections all still
\* exist on disk, yielded nothing.
C7_Witness ==
    /\ mementoLoad.fresh
    /\ globalState[mementoLoad.cacheKey] # NotStored
    /\ globalState[mementoLoad.cacheKey][1].extensionVersion # extensionVersion
    /\ Len(globalState[mementoLoad.cacheKey][1].kernels) = MaxStored
    /\ files = MementoUniverse
    /\ mementoLoad.validValues = << >>

\* ---- the list a finder produced (SpecSort) ----

FirstIndexOf(list, id) == CHOOSE i \in 1..Len(list) :
    list[i].id = id /\ \A j \in 1..(i - 1) : list[j].id # id

\* C9: the result holds, for each id of the input, exactly the first record
\* of the input with that id; no two records of the result share an id; the
\* result is not longer than the input; and the upper-cased display names
\* never descend.
C9_DistinctFirstOccurrenceSorted ==
    listed # NotListed =>
        LET result == listed[1]
        IN /\ \A i \in 1..Len(items) :
                  \E j \in 1..Len(result) :
                      result[j] = items[FirstIndexOf(items, items[i].id)]
           /\ \A j \in 1..Len(result) :
                  \E i \in 1..Len(items) :
                      i = FirstIndexOf(items, items[i].id) /\ result[j] = items[i]
           /\ \A i, j \in 1..Len(result) : result[i].id = result[j].id => i = j
           /\ Len(result) <= Len(items)
           /\ \A i, j \in 1..Len(result) :
                  i < j => ~StrLess(toUpperCase(result[j].kernelSpec.display_name),
                                    toUpperCase(result[i].kernelSpec.display_name))

\* C9, witness: of three records, two sharing an id, the first of the two
\* was kept, and "a" was put before "B" although "B" came first.
C9_Witness ==
    /\ items = << Kernel("k2", << "B" >>), Kernel("k1", << "a" >>), Kernel("k1", << "b" >>) >>
    /\ listed = << << Kernel("k1", << "a" >>), Kernel("k2", << "B" >>) >> >>

\* ---- loadKernelSpec (SpecLoad) ----

\* The load returned a record for a Python spec whose display name is not a
\* default one, whose argv has more than two entries, and which has a name
\* on disk or was loaded with an interpreter.
CustomPythonSpecLoaded ==
    /\ load.pc = "done"
    /\ load.result # Absent
    /\ ~isDefaultPythonKernelSpecSpecName(toLowerCase(load.content[1].display_name))
    /\ load.content[1].language = PYTHON_LANGUAGE
    /\ Len(load.content[1].argv) > 2
    /\ load.content[1].name # Undefined \/ load.interpreter # NoInterpreter

\* The name before the launch arguments are appended.
NameBeforeArgs ==
    IF load.interpreter # NoInterpreter
    THEN getInterpreterKernelSpecName(load.interpreter[1])
    ELSE load.content[1].name[1]

LaunchArgs == << Str.argM, Str.argIpykernel, Str.argIpykernelLauncher, Str.argF, Str.argConnectionFile >>

\* argv without its first entry, lower-cased, without the standard tokens.
RECURSIVE ExtraArgs(_)
ExtraArgs(argv) ==
    IF Len(argv) = 0 THEN << >>
    ELSE LET rest == ExtraArgs(Tail(argv))
             arg == toLowerCase(Head(argv))
         IN IF \E i \in 1..Len(LaunchArgs) : LaunchArgs[i] = arg
            THEN rest
            ELSE << arg >> \o rest

\* C10, as stated: the non-standard arguments, joined by '#', follow the name
\* after a '#'.
C10_ArgsAppendedAfterHash ==
    (CustomPythonSpecLoaded /\ ExtraArgs(Tail(load.content[1].argv)) # << >>) =>
        load.result[1].name =
            NameBeforeArgs \o << "#" >> \o join(ExtraArgs(Tail(load.content[1].argv)), << "#" >>)

\* C10, amended: the non-standard arguments, joined by '#', follow the name
\* after a '.'; for "My Custom Kernel" with the default argv and --debug the
\* name "mykernel" becomes "mykernel.--debug".
C10_ArgsAppendedAfterDot ==
    /\ (CustomPythonSpecLoaded /\ ExtraArgs(Tail(load.content[1].argv)) # << >>) =>
           load.result[1].name =
               NameBeforeArgs \o << "." >> \o join(ExtraArgs(Tail(load.content[1].argv)), << "#" >>)
    /\ (/\ load.pc = "done"
        /\ load.result # Absent
        /\ load.interpreter = NoInterpreter
        /\ load.content = << KernelJson(<< Str.nameMyKernel >>, Str.displayCustom, PYTHON_LANGUAGE,
                                        Append(DefaultArgv, Str.argDebug), Undefined) >>) =>
           load.result[1].name = << "m", "y", "k", "e", "r", "n", "e", "l", ".", "-", "-", "d", "e", "b", "u", "g" >>

\* C10, witness: a spec with two non-standard arguments, one of them in mixed
\* case, was loaded with an interpreter: "pythonc0.--debug#--profile".
C10_Witness ==
    /\ CustomPythonSpecLoaded
    /\ load.interpreter = << CondaInterpreter >>
    /\ load.result[1].name = << "p", "y", "t", "h", "o", "n", "c", "0", ".", "-", "-", "d", "e", "b", "u", "g", "#", "-", "-", "p", "r", "o", "f", "i", "l", "e" >>

\* ---- malformed spec files (SpecLoad) ----

\* The content of the load is a document that is no well-formed spec, or
\* no document at all.
MalformedContent ==
    \/ load.content = Unparseable
    \/ load.content[1] \in MalformedJsons

\* A load of a spec file outside the old-specs folder has ended.
LoadEnded ==
    /\ load.pc \in { "done", "threw" }
    /\ ~includesOldKernelsSpecFolderName(load.specPath)

\* C11: the loader never raises an error to its caller; a load of malformed
\* content (unparseable, the document null, a record without display_name
\* or without argv) ends by returning absent.
C11_MalformedContentYieldsAbsent ==
    /\ load.pc # "threw"
    /\ (LoadEnded /\ MalformedContent) => load.result = Absent

\* ---- the memoizing getKernelSpec (SpecGet) ----

\* The name is the one getInterpreterKernelSpecName derives from the
\* interpreter, alone or followed by '.' and the launch arguments.
DerivedFromInterpreter(name, interpreter) ==
    LET derived == getInterpreterKernelSpecName(interpreter)
    IN /\ IsPrefix(derived, name)
       /\ Len(name) > Len(derived) => name[Len(derived) + 1] = "."

\* Call g of getKernelSpec has returned a record.
ReturnedRecord(g) == gets[g].state = "returned" /\ gets[g].result # Absent

\* C12: a record returned to a load request that supplied an interpreter,
\* through loadKernelSpec or through getKernelSpec, is named after that
\* interpreter, whatever load requests were made for the file before.
C12_NameFromSuppliedInterpreter ==
    /\ (load.pc = "done" /\ load.result # Absent /\ load.interpreter # NoInterpreter)
           => DerivedFromInterpreter(load.result[1].name, load.interpreter[1])
    /\ \A g \in 1..Len(gets) :
           (ReturnedRecord(g) /\ gets[g].interpreter # NoInterpreter)
               => DerivedFromInterpreter(gets[g].result[1].name, gets[g].interpreter[1])

\* ---- name fallback (SpecLoad) ----

\* The load has returned a record for a file that holds no name, and no
\* interpreter was supplied.
ReturnedNameless ==
    /\ load.pc = "done"
    /\ load.result # Absent
    /\ load.interpreter = NoInterpreter
    /\ load.content[1].name = Undefined

\* C13: a record loaded without an interpreter from a file that holds no
\* name is named after the directory of the spec file, whatever the
\* display name, the language and the argv of the file.
C13_NamelessNamedAfterDirectory ==
    ReturnedNameless => load.result[1].name = << basename(dirname(load.specPath)) >>

\* ---- quarantine of old specs (SpecGet) ----

\* The backup of the spec file of quarantine q is in the old-specs folder.
BackupExists(q) == exists(destinationFile(quarantines[q].kernelSpecFile))

\* C14, as claimed: wherever quarantine has deleted the original spec
\* file, a backup copy of it exists in the old-specs folder.
C14_DeletedOnlyWithBackup ==
    \A q \in 1..Len(quarantines) : quarantines[q].deleted => BackupExists(q)

\* C14, amended: the original is deleted only once the copy step has
\* settled; where the copy succeeded the backup exists wherever the
\* original has been deleted.
C14_DeletedAfterCopySettled ==
    \A q \in 1..Len(quarantines) :
        /\ quarantines[q].deleted => quarantines[q].pc = "done"
        /\ (quarantines[q].deleted /\ quarantines[q].copied) => BackupExists(q)

C14_Witness ==
    \E q \in 1..Len(quarantines) :
        quarantines[q].deleted /\ quarantines[q].copied /\ BackupExists(q)

\* A step of quarantine q.
QuarantineStep(q, from, to) == quarantines[q].pc = from /\ quarantines'[q].pc = to

\* C15: quarantine creates the directory, copies, then deletes; a failed
\* copy is swallowed and the deletion still attempted; no failure of
\* quarantine reaches the caller of getKernelSpec, whose call is rejected
\* only when the load itself was.
C15_CopyFailureSwallowed ==
    /\ [](\A g \in 1..Len(gets) :
            gets[g].state = "rejected" => loadPromises[gets[g].promise].state = "rejected")
    /\ [][\A q \in 1..Len(quarantines) :
            quarantines'[q].pc # quarantines[q].pc =>
                \/ QuarantineStep(q, "createDirectory", "copy")
                \/ QuarantineStep(q, "createDirectory", "rejected")
                \/ QuarantineStep(q, "copy", "delete")
                \/ QuarantineStep(q, "delete", "done")
                \/ QuarantineStep(q, "delete", "rejected")]_vars

\* The copy failed, the original was deleted all the same, and the call
\* that started the quarantine returned absent.
C15_Witness ==
    \E q \in 1..Len(quarantines) :
        /\ ~quarantines[q].copied /\ quarantines[q].deleted
        /\ \E g \in 1..Len(gets) : gets[g].state = "returned" /\ gets[g].result = Absent
                                      /\ gets[g].globalSpecRootPath # Undefined

\* ---- cancellation of a load (SpecLoad) ----

\* The file of the load holds a well-formed spec.
WellFormedContent == load.content # Unparseable /\ load.content[1] \in KernelJsons

\* C16, as claimed: a load that ends while cancellation of its token has
\* been requested returns absent.
C16_CancelledLoadReturnsAbsent ==
    [][(/\ load.pc \in { "readFile", "getName", "exists" }
        /\ load.token \in cancelled
        /\ WellFormedContent
        /\ load'.pc \in { "done", "threw" })
          => (load'.pc = "done" /\ load'.result = Absent)]_vars

\* C16, amended: a load whose token is cancelled when the file read or the
\* derivation of the interpreter's name returns ends there and returns
\* absent; the one other end is the error that line 369 raises for the
\* document null before the check of line 370.  A record that is returned
\* is the complete one.
C16_CancelSeenAfterReadAndName ==
    /\ [][(/\ load.pc \in { "readFile", "getName" }
            /\ load.token \in cancelled
            /\ load'.pc # load.pc)
              => \/ load'.pc = "done" /\ load'.result = Absent
                 \/ /\ load.pc = "getName" /\ load.kernelJson = << NullDocument >>
                    /\ load'.pc = "threw"]_vars
    /\ []((load.pc = "done" /\ load.result # Absent)
              => load.result = << buildKernelSpec(load.kernelJson[1], load.specPath,
                                                  load.interpreter) >>)

\* Cancellation was seen after the interpreter's name had been derived.
C16_Witness ==
    /\ load.pc = "done" /\ load.result = Absent
    /\ load.token \in cancelled
    /\ WellFormedContent
    /\ load.interpreter # NoInterpreter
    /\ load.kernelJson = load.content

\* ---- a search path that does not exist (SpecPath) ----

\* fs.exists has answered search s that its directory does not exist.
DirectoryMissing(s) == searches[s].pc # "exists" /\ ~searches[s].existed

\* C17: a search whose target directory does not exist resolves to the
\* empty sequence; it is not rejected and fs.searchLocal is not called.
C17_MissingDirectoryYieldsEmpty ==
    \A s \in 1..Len(searches) :
        DirectoryMissing(s) =>
            /\ searches[s].pc = "resolved"
            /\ searches[s].value = << >>
            /\ searches[s].searchLocalCalls = 0

C17_Witness ==
    \E s \in 1..Len(searches) :
        /\ DirectoryMissing(s)
        /\ searches[s].pc = "resolved"
        /\ ~exists(searches[s].searchItem.kernelSearchPath)

\* ---- the old-specs folder is no source of specs (SpecGet) ----

\* The path has a segment of the reserved name.
UnderOldSpecsFolder(specPath) ==
    \E n \in 1..Len(specPath) : specPath[n] = "__old_vscode_kernelspecs"

\* C18: a spec file under the old-specs folder is never returned by
\* loadKernelSpec or getKernelSpec and is never read: no load of it gets
\* as far as fs.readFile and the load cache never holds an entry for it.
C18_OldSpecsFolderNeverLoaded ==
    /\ UnderOldSpecsFolder(load.specPath)
           => (load.pc = "done" /\ load.result = Absent /\ load.kernelJson = Undefined)
    /\ \A g \in 1..Len(gets) :
           UnderOldSpecsFolder(gets[g].specPath)
               => /\ gets[g].state = "returned"
                  /\ gets[g].result = Absent
                  /\ gets[g].promise = NoPromise
    /\ \A specPath \in LoadSpecPaths :
           UnderOldSpecsFolder(specPath)
               => pathToKernelSpec[getComparisonKey(specPath)] = NoPromise

\* getKernelSpec was asked for a backup that quarantine has stored.
C18_Witness ==
    \E g \in 1..Len(gets) :
        /\ UnderOldSpecsFolder(gets[g].specPath)
        /\ exists(gets[g].specPath)
        /\ gets[g].state = "returned"

\* ---- independence of the scopes (SpecList) ----

\* The step invokes a finder for scope key b.
FinderInvokedFor(b) ==
    /\ Len(finderPromises') = Len(finderPromises) + 1
    /\ finderPromises'[Len(finderPromises')].cacheKey = b

\* The step is a listKernelsWithCache call for scope key b that stores
\* the promise of the finder it invokes in the slot of b.
CallStoresSlotOf(b) ==
    /\ lastListCall'.cacheKey = b
    /\ lastListCall'.finders = Len(finderPromises)
    /\ FinderInvokedFor(b)
    /\ kernelSpecCache'[b] # NoSlot
    /\ kernelSpecCache'[b][1].promise = Len(finderPromises')
    /\ lastListCall'.promise = Len(finderPromises')

\* C19: the slot of a scope key is created or replaced, and a finder is
\* invoked for it, only by a listKernelsWithCache call for that very key;
\* no slot is ever removed.
C19_ScopesIndependent ==
    [][\A b \in CacheKeys :
          (kernelSpecCache'[b] # kernelSpecCache[b] \/ FinderInvokedFor(b))
              => CallStoresSlotOf(b)]_vars

\* The latest call invoked a finder and stored its slot while the other
\* scope held a slot.
C19_Witness ==
    /\ \A b \in CacheKeys : kernelSpecCache[b] # NoSlot
    /\ lastListCall.promise > lastListCall.finders
    /\ \E b \in CacheKeys :
           b # lastListCall.cacheKey /\ kernelSpecCache[b][1].promise <= lastListCall.finders

\* ---- specs the extension registered in the global folder (SpecGet) ----

\* The extension registered the spec itself and its file lies at or under
\* the global spec root the caller supplied.
RegisteredUnderRoot(kernelSpec, globalSpecRootPath) ==
    /\ globalSpecRootPath # Undefined
    /\ kernelSpec.isRegisteredByVSC # Undefined
    /\ IsPrefix(globalSpecRootPath[1], kernelSpec.specFile)

\* The step ends call g of getKernelSpec, whose load produced such a spec.
EndsCallForRegistered(g) ==
    /\ gets[g].state = "pending"
    /\ gets'[g].state # "pending"
    /\ loadPromises[gets[g].promise].state = "fulfilled"
    /\ loadPromises[gets[g].promise].value # Absent
    /\ RegisteredUnderRoot(loadPromises[gets[g].promise].value[1], gets[g].globalSpecRootPath)

\* C20: getKernelSpec returns no spec that the extension registered itself
\* and whose file lies at or under the supplied global spec root; the call
\* returns absent, starts the quarantine of the spec file and removes the
\* entry of the spec path from the load cache.
C20_RegisteredGlobalSpecQuarantined ==
    /\ [](\A g \in 1..Len(gets) :
             ReturnedRecord(g)
                 => ~RegisteredUnderRoot(gets[g].result[1], gets[g].globalSpecRootPath))
    /\ [][\A g \in 1..Len(gets) :
             EndsCallForRegistered(g) =>
                 /\ gets'[g].state = "returned"
                 /\ gets'[g].result = Absent
                 /\ Len(quarantines') = Len(quarantines) + 1
                 /\ quarantines'[Len(quarantines')].kernelSpecFile = gets[g].specPath
                 /\ quarantines'[Len(quarantines')].pc = "createDirectory"
                 /\ pathToKernelSpec'[getComparisonKey(gets[g].specPath)] = NoPromise]_vars

C20_Witness ==
    \E g \in 1..Len(gets) :
        /\ gets[g].state = "returned" /\ gets[g].result = Absent
        /\ gets[g].promise # NoPromise
        /\ loadPromises[gets[g].promise].state = "fulfilled"
        /\ loadPromises[gets[g].promise].value # Absent
        /\ RegisteredUnderRoot(loadPromises[gets[g].promise].value[1],
                               gets[g].globalSpecRootPath)
        /\ \E q \in 1..Len(quarantines) : quarantines[q].kernelSpecFile = gets[g].specPath

(***************************************************************************)
(* C21: the result files the notebook saves.                               *)
(***************************************************************************)
\* the saveResultsFile calls that wrote the file called name
WroteFor(name) == { c \in 1..Len(saved) : name \in saved[c].written }

\* the saveResultsFile calls that went through an entry called name
CheckedFor(name) == { c \in 1..Len(saved) : name \in saved[c].checked }

LastWriteFor(name) == CHOOSE c \in WroteFor(name) : \A d \in WroteFor(name) : d <= c

RecordedNeverDecreases ==
    \A name \in ResultNames :
        alreadyDownloaded[name] # Undefined =>
            /\ alreadyDownloaded'[name] # Undefined
            /\ notEarlier(alreadyDownloaded'[name][1], alreadyDownloaded[name][1])

\* C21: a result file of an artifact is written only if no file of that
\* name was recorded with a datetime later than or equal to the run's; the
\* recorded datetime of a name never decreases; and the content last
\* written for a name comes from a run whose datetime is the greatest among
\* the runs whose entry of that name was gone through.
C21_NewestResultKept ==
    /\ [](\A c \in 1..Len(saved) : \A name \in saved[c].written :
             \/ saved[c].recordedBefore[name] = Undefined
             \/ ~notEarlier(saved[c].recordedBefore[name][1], strptime(saved[c].timeStamp)))
    /\ [][RecordedNeverDecreases]_vars
    /\ [](\A name \in ResultNames :
             WroteFor(name) # {} =>
                 /\ resultFiles[name] = << LastWriteFor(name) >>
                 /\ \A c \in CheckedFor(name) :
                        notEarlier(strptime(saved[LastWriteFor(name)].timeStamp),
                                   strptime(saved[c].timeStamp)))

\* a file found on disk was replaced by the first run, and the second run,
\* not later than the first, left it alone
C21_Witness ==
    /\ Len(saved) = 2
    /\ \E name \in ResultNames :
           /\ saved[1].recordedBefore[name] # Undefined
           /\ name \in saved[1].written
           /\ name \in saved[2].checked \ saved[2].written
           /\ resultFiles[name] = << 1 >>

(***************************************************************************)
(* C22: a caller that shares the pending search of another caller.         *)
(***************************************************************************)
\* The latest caller got the promise of a search another caller's token
\* belongs to, and its own token has not been cancelled.
SharesSearchOfOther ==
    /\ lastPathCall.previousPending
    /\ lastPathCall.cancelToken # searches[lastPathCall.promise].token
    /\ lastPathCall.cancelToken \notin cancelled

\* C22: a caller whose own token is never cancelled and who shares the
\* pending search another caller started is not handed an empty list because
\* of cancellation: the search it shares never returns at line 303.
C22_SharedSearchIgnoresOthersCancel ==
    SharesSearchOfOther =>
        ~( /\ searches[lastPathCall.promise].pc = "resolved"
           /\ searches[lastPathCall.promise].existed
           /\ searches[lastPathCall.promise].cancelSeen )

(***************************************************************************)
(* C23: which entry an eviction removes.                                   *)
(***************************************************************************)
\* The step runs an evicting callback of search s: its rejection handler
\* (lines 326-331), or its cancellation listener (lines 320-324) called at
\* the cancellation of its token or from the timer.
EvictionBy(s) ==
    \/ searches[s].pc # "rejected" /\ searches'[s].pc = "rejected"
    \/ searches[s].token \in cancelled' \ cancelled /\ searches[s].listener = "subscribed"
    \/ searches[s].listener = "deferred" /\ searches'[s].listener = "spent"

\* C23: an entry leaves the path-search cache only in a step that runs an
\* evicting callback of the very search that stored it; the cancellation or
\* the failure of an older search for the key leaves the entry of a newer
\* search for the same key in place.
C23_EvictionRemovesOwnEntryOnly ==
    [][\A k \in SearchCacheKeys :
          findKernelSpecsInPathCache[k] # NoPromise
          /\ findKernelSpecsInPathCache'[k] # findKernelSpecsInPathCache[k]
          => /\ findKernelSpecsInPathCache'[k] = NoPromise
             /\ EvictionBy(findKernelSpecsInPathCache[k])]_vars

\* an older search for a key failed while the cache held a newer search for
\* the same key, which is still there
C23_Witness ==
    \E old \in 1..Len(searches), new \in 1..Len(searches) :
        /\ old < new
        /\ searches[old].cacheKey = searches[new].cacheKey
        /\ searches[old].pc = "rejected"
        /\ Pending(new)
        /\ findKernelSpecsInPathCache[searches[new].cacheKey] = new

(***************************************************************************)
(* C24: a finder that failed.                                              *)
(***************************************************************************)
\* The latest call was made without ignoreCache for a key whose slot held
\* the promise of a finder that had failed before the call.
CalledAfterFailure ==
    /\ lastListCall.found # NoSlot
    /\ ~lastListCall.ignoreCache
    /\ ~lastListCall.inFlight
    /\ finderPromises[lastListCall.found[1].promise].state = "rejected"

\* C24: a failed search is not kept in the scope-listing cache: the next
\* call for the key made without ignoreCache invokes the finder again and
\* does not return the stored failure.
C24_FailedSearchNotRetained ==
    CalledAfterFailure =>
        /\ lastListCall.promise # lastListCall.found[1].promise
        /\ lastListCall.promise = lastListCall.finders + 1

(***************************************************************************)
(* C25: the slot of a key and the searches started for it.                 *)
(***************************************************************************)
\* the finder promises created for cacheKey among the first n
FindersOf(cacheKey, n) == { p \in 1..n : finderPromises[p].cacheKey = cacheKey }

Newest(promises) == CHOOSE p \in promises : \A q \in promises : q <= p

\* The latest call returned the promise it found in the slot.
HonoredCache ==
    /\ lastListCall.found # NoSlot
    /\ lastListCall.promise = lastListCall.found[1].promise

\* C25: the slot of a key holds the promise of the search started last for
\* that key, and a call that returns the promise of the slot returns the
\* promise of the newest search started for the key before the call,
\* whatever older searches did since.
C25_SlotHoldsNewestSearch ==
    /\ \A k \in CacheKeys :
           IF FindersOf(k, Len(finderPromises)) = {}
           THEN kernelSpecCache[k] = NoSlot
           ELSE /\ kernelSpecCache[k] # NoSlot
                /\ kernelSpecCache[k][1].promise = Newest(FindersOf(k, Len(finderPromises)))
    /\ HonoredCache =>
           lastListCall.promise = Newest(FindersOf(lastListCall.cacheKey, lastListCall.finders))

\* two searches were started for a key; the older one has resolved, and a
\* later call that honored the cache returned the promise of the newer one
C25_Witness ==
    /\ HonoredCache
    /\ lastListCall.finders = 2
    /\ lastListCall.promise = 2
    /\ finderPromises[1].cacheKey = finderPromises[2].cacheKey
    /\ finderPromises[1].state = "fulfilled"
    /\ finderPromises[2].state = "pending"

(***************************************************************************)
(* C26: loads that end without a record.                                   *)
(***************************************************************************)
\* Load promise p has settled without a record: fulfilled with undefined,
\* or rejected.
EndedWithoutRecord(p) ==
    \/ loadPromises[p].state = "rejected"
    \/ loadPromises[p].state = "fulfilled" /\ loadPromises[p].value = Absent

\* C26: a load that ended without a record is not memoized: once the
\* callbacks of the calls that wait for it have run, the load cache holds
\* no entry for it, so the next getKernelSpec call for the path loads again.
C26_UnsuccessfulLoadNotMemoized ==
    \A k \in GetKeys :
        pathToKernelSpec[k] # NoPromise /\ EndedWithoutRecord(pathToKernelSpec[k])
            => \E g \in 1..Len(gets) :
                   gets[g].promise = pathToKernelSpec[k] /\ gets[g].state = "pending"

====
